---- MODULE Spec2Model ----
(***************************************************************************)
(* A model of FastTri::Triangulation (src/src/libraries/fasttri/src): the  *)
(* constrained Delaunay triangulation wrapper, its constraint polygons,    *)
(* domain marking, point location with barycentric weights, and the        *)
(* accessors get_triangles and get_vertices.                               *)
(*                                                                         *)
(* Coordinates are integers, so that every geometric predicate and every   *)
(* barycentric weight is exact: a weight is the rational num[i] / den.     *)
(* The CGAL triangulation behind m_triangulation is modelled by its        *)
(* documented behaviour: the vertices it holds, the faces of a constrained *)
(* Delaunay triangulation of them, the constrained edges, and what locate, *)
(* insert and insert_constraint answer.  Where CGAL leaves a choice open   *)
(* (which of two co-circular diagonals, which face of several around a     *)
(* vertex, which corner is vertex(0), which of two coinciding input points *)
(* keeps its info) the model takes every choice.                           *)
(***************************************************************************)
EXTENDS Integers, Sequences, FiniteSets, TLC

VARIABLES
    alive,        \* the process runs (FALSE after a null handle was dereferenced)
    built,        \* m_triangulation holds a triangulation
    points,       \* the points given to the constructor, in the caller's order
    vpoint,       \* vertex handle -> point, one entry per finite vertex
    vinfo,        \* vertex handle -> info() (the unsigned index), or Uninit
    faces,        \* the finite faces: counter-clockwise triples of vertex handles
    in_domain,    \* the faces whose FaceInfo2::m_in_domain is true
    constrained,  \* the constrained edges: pairs of vertex handles
    applied,      \* the polygons whose insertion returned normally, in order
    ncalls,       \* number of apply_constraint_polygon calls made
    grib,         \* the Grib source field: its members, and the decoder's log
    kdtree,       \* the KdtreePrivate spatial index: its members
    wind,         \* the WindData container: its members
    readers,      \* the query calls in progress, each with its locate hint
    ret           \* what the last call returned or threw

vars == <<alive, built, points, vpoint, vinfo, faces, in_domain, constrained,
          applied, ncalls, grib, kdtree, wind, readers, ret>>

(***************************************************************************)
(* Bounds of the model.                                                    *)
(***************************************************************************)
\* longest coordinate vector handed to the constructor in SpecCtor
MaxLen == 4
\* most apply_constraint_polygon calls on one triangulation
MaxApply == 2

\* coordinates of the constructor's vectors in SpecCtor
CtorCoord == {0, 4}

\* the least number of mesh points and of polygon vertices
MinPoints == 3
MinPolygon == 3

\* what an unsigned vertex info holds that no code ever assigned: the vertex
\* base default-constructs it, so a read yields any value (see ReadInfo)
Uninit == 0 - 1
Garbage == {0, 99}

(***************************************************************************)
(* Integer plane geometry.  A point is <<x, y>>.                           *)
(***************************************************************************)
Orient(a, b, c) ==
    (b[1] - a[1]) * (c[2] - a[2]) - (b[2] - a[2]) * (c[1] - a[1])

Sign(n) == IF n > 0 THEN 1 ELSE IF n < 0 THEN -1 ELSE 0

\* p lies on the segment a b, strictly between its ends
Between(a, p, b) ==
    /\ Orient(a, b, p) = 0
    /\ p # a /\ p # b
    /\ (IF a[1] <= b[1] THEN a[1] <= p[1] /\ p[1] <= b[1]
                        ELSE b[1] <= p[1] /\ p[1] <= a[1])
    /\ (IF a[2] <= b[2] THEN a[2] <= p[2] /\ p[2] <= b[2]
                        ELSE b[2] <= p[2] /\ p[2] <= a[2])

\* the segments a b and c d cross in a point interior to both
ProperCross(a, b, c, d) ==
    /\ Sign(Orient(a, b, c)) * Sign(Orient(a, b, d)) < 0
    /\ Sign(Orient(c, d, a)) * Sign(Orient(c, d, b)) < 0

\* p lies in the closed counter-clockwise triangle a b c
InClosedTri(p, a, b, c) ==
    Orient(a, b, p) >= 0 /\ Orient(b, c, p) >= 0 /\ Orient(c, a, p) >= 0

\* > 0 iff d lies strictly inside the circle through the counter-clockwise a, b, c
InCircle(a, b, c, d) ==
    LET ax == a[1] - d[1]
        ay == a[2] - d[2]
        bx == b[1] - d[1]
        by == b[2] - d[2]
        cx == c[1] - d[1]
        cy == c[2] - d[2]
        a2 == ax * ax + ay * ay
        b2 == bx * bx + by * by
        c2 == cx * cx + cy * cy
    IN  ax * (by * c2 - b2 * cy) - ay * (bx * c2 - b2 * cx)
          + a2 * (bx * cy - by * cx)

(***************************************************************************)
(* The triangulation data structure (t_CDT).                               *)
(***************************************************************************)
Handles(vp) == 1..Len(vp)

\* CGAL's dimension(): -1 empty, 0 one point, 1 collinear points, 2 otherwise
Dimension(vp) ==
    IF Len(vp) = 0 THEN -1
    ELSE IF \A h \in Handles(vp) : vp[h] = vp[1] THEN 0
    ELSE IF \A h, k, l \in Handles(vp) : Orient(vp[h], vp[k], vp[l]) = 0 THEN 1
    ELSE 2

FaceEdges(f) == {{f[1], f[2]}, {f[2], f[3]}, {f[3], f[1]}}

FaceDirEdges(f) == {<<f[1], f[2]>>, <<f[2], f[3]>>, <<f[3], f[1]>>}

Lo(e) == CHOOSE a \in e : \A b \in e : a <= b

Hi(e) == CHOOSE a \in e : \A b \in e : b <= a

EdgeCrosses(vp, e, g) ==
    ProperCross(vp[Lo(e)], vp[Hi(e)], vp[Lo(g)], vp[Hi(g)])

\* the triples of handles 1..n, from their least handle, in both orientations
Triples(n) ==
    UNION {UNION {UNION {{<<a, b, c>>, <<a, c, b>>} : c \in (b + 1)..n} :
                  b \in (a + 1)..n} :
           a \in 1..n}

\* the triangles a constrained triangulation of vp may hold: counter-clockwise,
\* written from their least handle, holding no other vertex, crossing no constraint
Candidates(vp, ce) ==
    {f \in Triples(Len(vp)) :
        /\ Orient(vp[f[1]], vp[f[2]], vp[f[3]]) > 0
        /\ \A h \in Handles(vp) \ {f[1], f[2], f[3]} :
              ~InClosedTri(vp[h], vp[f[1]], vp[f[2]], vp[f[3]])
        /\ \A e \in FaceEdges(f), g \in ce : ~EdgeCrosses(vp, e, g)}

\* the edges of the convex hull, directed with the hull on their left
HullEdges(vp) ==
    {e \in Handles(vp) \X Handles(vp) :
        /\ e[1] # e[2]
        /\ \A h \in Handles(vp) : Orient(vp[e[1]], vp[e[2]], vp[h]) >= 0
        /\ \A h \in Handles(vp) : ~Between(vp[e[1]], vp[h], vp[e[2]])}

Apex(f, e) == CHOOSE h \in {f[1], f[2], f[3]} : h \notin e

\* the constrained Delaunay property of face f across its edge e: unless e is
\* constrained, the face of T beyond e has no corner inside f's circle
LocallyDelaunay(vp, ce, T, f, e) ==
    \A g \in T :
        (e \in FaceEdges(g) /\ e \notin ce) =>
            InCircle(vp[f[1]], vp[f[2]], vp[f[3]], vp[Apex(g, e)]) <= 0

MinEdge(S) ==
    CHOOSE e \in S : \A g \in S : e[1] < g[1] \/ (e[1] = g[1] /\ e[2] <= g[2])

\* every way to complete the faces T to a constrained Delaunay triangulation;
\* open holds the directed edges that still miss the face on their left (the
\* border of what is not triangulated yet, which a new face may not cross)
RECURSIVE Advance(_, _, _, _, _)
Advance(vp, ce, cands, T, open) ==
    IF open = {} THEN {T}
    ELSE LET e == MinEdge(open)
             fits == {f \in cands :
                        /\ e \in FaceDirEdges(f)
                        /\ \A x \in FaceEdges(f), d \in open :
                               ~EdgeCrosses(vp, x, {d[1], d[2]})
                        /\ \A d \in FaceDirEdges(f) :
                               \A g \in T : d \notin FaceDirEdges(g)
                        /\ \A x \in FaceEdges(f) : LocallyDelaunay(vp, ce, T, f, x)}
         IN  UNION {LET closed == FaceDirEdges(f) \cap open
                        fresh  == {<<d[2], d[1]>> : d \in FaceDirEdges(f) \ open}
                    IN  Advance(vp, ce, cands, T \cup {f}, (open \ closed) \cup fresh)
                    : f \in fits}

\* the face sets CGAL may hold for the vertices vp and the constrained edges ce
\* (no finite face of three vertices exists below dimension 2)
CDTs(vp, ce) ==
    IF Dimension(vp) < 2 THEN {{}}
    ELSE LET all == Advance(vp, ce, Candidates(vp, ce), {}, HullEdges(vp))
         IN  {T \in all : \A e \in ce : \E f \in T : e \in FaceEdges(f)}

(***************************************************************************)
(* Results of calls.  One record shape serves every call; a call fills the *)
(* fields it has.  err is "none" for a normal return, the exception's name *)
(* for a throw, "crash" when the call dereferenced a null handle.          *)
(***************************************************************************)
Unset == <<-1, -1>>

NoRet ==
    [op |-> "none", err |-> "none", nx |-> 0, ny |-> 0,
     q |-> Unset, lt |-> "none", valid |-> FALSE,
     face |-> <<0, 0, 0>>, vertices |-> <<0, 0, 0>>,
     num |-> <<0, 0, 0>>, den |-> 1,
     tris |-> <<>>, verts |-> <<>>, oob |-> FALSE, out |-> <<>>]

\* KdtreePrivate before any constructor has run
NoKdtree == [constructed |-> FALSE, m_initialized |-> FALSE, pts |-> <<>>]

\* WindData before its constructor has run
NoWind ==
    [constructed |-> FALSE, ndebug |-> FALSE, m_ni |-> 0, m_nj |-> 0,
     m_u |-> <<>>, m_v |-> <<>>, m_p |-> <<>>, written |-> {},
     oob_written |-> FALSE]

\* t_LookupHint{}: no face yet.  epoch is the number of constraint insertions
\* made when the face was stored.
NoHint == [has_hint |-> FALSE, face |-> <<0, 0, 0>>, epoch |-> 0]

\* the threads that query the triangulation, and a thread outside any query
\* call; last is the weight its call computed last, NoWeight before the first
Readers == {"r1", "r2"}
NoWeight == [op |-> "none"]
IdleReader ==
    [active |-> FALSE, todo |-> <<>>, hint |-> NoHint, last |-> NoWeight,
     err |-> "none"]

\* Grib before initialize() has run: the constructor's member initialisers
\* (m_ni, m_nj, m_size 0, the vectors and the map empty); decoded, reads
\* and calls keep what the decoder handed out and what the calls returned
NoGrib ==
    [loaded |-> FALSE, file |-> <<>>, decoded |-> <<>>, m_ni |-> 0, m_nj |-> 0,
     m_size |-> 0, m_latitude |-> <<>>, m_longitude |-> <<>>, m_corners |-> <<>>,
     m_tree |-> NoKdtree, m_preread_values |-> <<>>,
     m_preread_value_map |-> {}, reads |-> <<>>, calls |-> <<>>]

SeqsUpTo(S, n) == UNION {[1..k -> S] : k \in 0..n}

(***************************************************************************)
(* Construction.                                                           *)
(***************************************************************************)
construct_points_unchecked(points_x, points_y) ==
    [err |-> "none",
     pts |-> [i \in 1..(IF Len(points_x) <= Len(points_y)
                        THEN Len(points_x) ELSE Len(points_y))
                |-> <<points_x[i], points_y[i]>>]]

construct_points(points_x, points_y) ==
    IF Len(points_x) # Len(points_y)
    THEN [err |-> "invalid_argument", pts |-> <<>>]
    ELSE [err |-> "none",
          pts |-> [i \in 1..Len(points_x) |-> <<points_x[i], points_y[i]>>]]

\* the vertices CGAL holds after inserting pts: one per distinct point
RECURSIVE InsertAll(_, _)
InsertAll(vp, pts) ==
    IF pts = <<>> THEN vp
    ELSE InsertAll(IF \E h \in Handles(vp) : vp[h] = Head(pts)
                   THEN vp ELSE Append(vp, Head(pts)),
                   Tail(pts))

\* add_mesh_points: each point goes in with its index as info; where input
\* points coincide one vertex is made and holds the index of one of them
add_mesh_points(pts) ==
    LET vp == InsertAll(<<>>, pts)
    IN  {[vp |-> vp, vi |-> vi] :
            vi \in {f \in [Handles(vp) -> 0..(Len(pts) - 1)] :
                       \A h \in Handles(vp) : pts[f[h] + 1] = vp[h]}}

construct_triangulation(x, y) ==
    IF Len(x) < MinPoints
    THEN [err |-> "invalid_argument", pts |-> <<>>]
    ELSE construct_points(x, y)

\* Triangulation::Triangulation(points_x, points_y)
Construct(xs, ys) ==
    /\ alive /\ ~built /\ ret.op = "none"
    /\ LET r == construct_triangulation(xs, ys)
           base == [NoRet EXCEPT !.op = "construct", !.nx = Len(xs), !.ny = Len(ys)]
       IN  IF r.err # "none"
           THEN /\ ret' = [base EXCEPT !.err = r.err]
                /\ UNCHANGED <<alive, built, points, vpoint, vinfo, faces,
                               in_domain, constrained, applied, ncalls>>
           ELSE \E m \in add_mesh_points(r.pts) :
                \E T \in CDTs(m.vp, {}) :
                    /\ built' = TRUE
                    /\ points' = r.pts
                    /\ vpoint' = m.vp
                    /\ vinfo' = m.vi
                    /\ faces' = T
                    /\ in_domain' = {}
                    /\ constrained' = {}
                    /\ ret' = base
                    /\ UNCHANGED <<alive, applied, ncalls>>
    /\ UNCHANGED <<grib, kdtree, wind, readers>>

\* the caller takes the result; the next call may start
Return ==
    /\ ret.op # "none"
    /\ alive
    /\ ret' = NoRet
    /\ UNCHANGED <<alive, built, points, vpoint, vinfo, faces, in_domain,
                   constrained, applied, ncalls>>
    /\ UNCHANGED <<grib, kdtree, wind, readers>>

Init ==
    /\ alive = TRUE
    /\ built = FALSE
    /\ points = <<>>
    /\ vpoint = <<>>
    /\ vinfo = <<>>
    /\ faces = {}
    /\ in_domain = {}
    /\ constrained = {}
    /\ applied = <<>>
    /\ ncalls = 0
    /\ grib = NoGrib
    /\ kdtree = NoKdtree
    /\ wind = NoWind
    /\ readers = [r \in Readers |-> IdleReader]
    /\ ret = NoRet

(***************************************************************************)
(* SpecCtor: the constructor on every pair of coordinate vectors of up to  *)
(* MaxLen entries.                                                         *)
(***************************************************************************)
ConstructAny ==
    \E xs \in SeqsUpTo(CtorCoord, MaxLen), ys \in SeqsUpTo(CtorCoord, MaxLen) :
        Construct(xs, ys)

NextCtor == ConstructAny \/ Return

SpecCtor == Init /\ [][NextCtor]_vars

\* C1: the constructor throws invalid_argument exactly when |x| # |y| or
\* |x| < 3, for every pair of lengths, and builds the triangulation exactly
\* when |x| = |y| >= 3.
C1_ConstructionArity ==
    ret.op = "construct" =>
        /\ ret.err \in {"none", "invalid_argument"}
        /\ (ret.err = "invalid_argument") <=> (ret.nx # ret.ny \/ ret.nx < 3)
        /\ (ret.err = "none") <=> (ret.nx = ret.ny /\ ret.nx >= 3)
        /\ built <=> (ret.nx = ret.ny /\ ret.nx >= 3)
        /\ built => Len(points) = ret.nx

\* a vector x of three or more entries with a shorter y of fewer than three
C1_Witness ==
    /\ ret.op = "construct"
    /\ ret.nx >= 3 /\ ret.ny < 3
    /\ ret.err = "invalid_argument"
    /\ ~built

(***************************************************************************)
(* Constraint polygons.                                                    *)
(***************************************************************************)
\* t_CDT::insert(q): the vertex at q, made if there is none; a new vertex on a
\* constrained edge splits the edge into two constrained edges
InsertVertex(vp, ce, q) ==
    IF \E h \in Handles(vp) : vp[h] = q
    THEN [vp |-> vp, ce |-> ce, h |-> CHOOSE h \in Handles(vp) : vp[h] = q]
    ELSE LET h == Len(vp) + 1
             hit == {e \in ce : \E a, b \in e : a < b /\ Between(vp[a], q, vp[b])}
         IN  [vp |-> Append(vp, q),
              ce |-> (ce \ hit) \cup UNION {{{a, h} : a \in e} : e \in hit},
              h |-> h]

Dist2(p, q) == (p[1] - q[1]) * (p[1] - q[1]) + (p[2] - q[2]) * (p[2] - q[2])

\* the vertex after u on the segment from u to b
NextOnSegment(vp, u, b) ==
    LET on == {h \in Handles(vp) : h = b \/ Between(vp[u], vp[h], vp[b])}
    IN  CHOOSE h \in on : \A k \in on : Dist2(vp[u], vp[h]) <= Dist2(vp[u], vp[k])

\* t_CDT::insert_constraint(va, vb): the segment becomes constrained edges between
\* the vertices that lie on it, from va on; a piece that crosses a constrained
\* edge in a point that is no vertex throws Intersection_of_constraints_exception
\* (the triangulation's intersection tag constructs no intersection points)
RECURSIVE InsertSegment(_, _, _, _)
InsertSegment(vp, ce, a, b) ==
    IF a = b THEN [ce |-> ce, thrown |-> FALSE]
    ELSE LET u == NextOnSegment(vp, a, b)
         IN  IF \E g \in ce : EdgeCrosses(vp, {a, u}, g)
             THEN [ce |-> ce, thrown |-> TRUE]
             ELSE InsertSegment(vp, ce \cup {{a, u}}, u, b)

\* t_CDT::insert_constraint(first, last, close = true) from the i-th point on;
\* v is the vertex of the last point taken, v0 the vertex of the first
RECURSIVE InsertChain(_, _, _, _, _, _)

\* the loop body once the i-th point has its vertex w.h
InsertNext(w, poly, i, v, v0) ==
    LET s == InsertSegment(w.vp, w.ce, v, w.h)
    IN  IF s.thrown
        THEN [vp |-> w.vp, ce |-> s.ce, thrown |-> TRUE]
        ELSE InsertChain(w.vp, s.ce, poly, i + 1, w.h, v0)

InsertChain(vp, ce, poly, i, v, v0) ==
    IF i > Len(poly)
    THEN IF v # v0
         THEN LET s == InsertSegment(vp, ce, v, v0)
              IN  [vp |-> vp, ce |-> s.ce, thrown |-> s.thrown]
         ELSE [vp |-> vp, ce |-> ce, thrown |-> FALSE]
    ELSE IF poly[i] = vp[v]
         THEN InsertChain(vp, ce, poly, i + 1, v, v0)
         ELSE InsertNext(InsertVertex(vp, ce, poly[i]), poly, i, v, v0)

insert_constraint(vp, ce, poly) ==
    LET r == InsertVertex(vp, ce, poly[1])
    IN  InsertChain(r.vp, r.ce, poly, 2, r.h, r.h)

(***************************************************************************)
(* Domain marking.  The infinite face is the node Inf of the face graph.   *)
(***************************************************************************)
Inf == <<0, 0, 0>>

\* the hull edges: those of one finite face only, which the infinite faces
\* share with the finite ones
BorderEdges(T) ==
    {e \in UNION {FaceEdges(f) : f \in T} :
        Cardinality({f \in T : e \in FaceEdges(f)}) = 1}

\* the edges of a node: a finite face's three, or the hull edges
NodeEdges(hull, n) == IF n = Inf THEN hull ELSE FaceEdges(n)

\* the nodes next to n across an edge that is constrained (c) or is not (~c)
Neighbors(T, ce, hull, n, c) ==
    {m \in (T \cup {Inf}) \ {n} :
        \E e \in NodeEdges(hull, n) \cap NodeEdges(hull, m) : (e \in ce) = c}

\* the faces reached from region without crossing a constrained edge
RECURSIVE Flood(_, _, _, _, _)
Flood(T, ce, hull, region, unvisited) ==
    LET more == {m \in unvisited \ region :
                    \E n \in region : m \in Neighbors(T, ce, hull, n, FALSE)}
    IN  IF more = {} THEN region
        ELSE Flood(T, ce, hull, region \cup more, unvisited)

\* the faces beyond the constrained border of region
Border(T, ce, hull, region, seen) ==
    {m \in (T \cup {Inf}) \ seen :
        \E n \in region : m \in Neighbors(T, ce, hull, n, TRUE)}

\* CGAL::mark_domain_in_triangulation: nesting level 0 floods from the infinite
\* face; the faces beyond the constrained border of level k get level k + 1;
\* the property map holds true for the faces of odd level
RECURSIVE MarkLevels(_, _, _, _, _, _, _)
RECURSIVE MarkRegion(_, _, _, _, _, _, _)
MarkRegion(T, ce, hull, visited, region, level, odd) ==
    MarkLevels(T, ce, hull, visited \cup region,
               Border(T, ce, hull, region, visited \cup region), level + 1,
               IF level % 2 = 1 THEN odd \cup region ELSE odd)

MarkLevels(T, ce, hull, visited, seeds, level, odd) ==
    IF seeds = {} THEN odd
    ELSE MarkRegion(T, ce, hull, visited,
                    Flood(T, ce, hull, seeds, (T \cup {Inf}) \ visited), level, odd)

mark_domain_in_triangulation(T, ce) ==
    MarkLevels(T, ce, BorderEdges(T), {}, {Inf}, 0, {})

\* mark_domain_status: every finite face's flag is set from the map
mark_domain_status(T, ce) ==
    LET in_domain_map == mark_domain_in_triangulation(T, ce)
    IN  {fit \in T : fit \in in_domain_map}

\* the flags the faces T carry when an insertion has rebuilt faces and no marking
\* followed: a face that stayed keeps its flag; a rebuilt face holds what the
\* face object it was made in held (the two extremes are followed: every
\* rebuilt face in a fresh object, or every one in an object that was flagged)
StaleFlags(T, old_faces, old_flags) ==
    {(old_flags \cap T) \cup fresh :
        fresh \in (IF old_flags = {} THEN {{}} ELSE {{}, T \ old_faces})}

\* the slip of leaving out the test of the polygon's size
apply_polygon_unchecked(vp, ce, poly) ==
    LET r == insert_constraint(vp, ce, poly)
    IN  [err |-> IF r.thrown THEN "intersection_of_constraints" ELSE "none",
         vp |-> r.vp, ce |-> r.ce, ran |-> TRUE]

\* the slip of testing the number of vertices after the insertion
apply_polygon_late_check(vp, ce, poly) ==
    LET r == insert_constraint(vp, ce, poly)
    IN  [err |-> IF r.thrown THEN "intersection_of_constraints"
                 ELSE IF Len(poly) < MinPolygon THEN "invalid_argument"
                 ELSE "none",
         vp |-> r.vp, ce |-> r.ce, ran |-> TRUE]

\* apply_constraint_polygon(const t_Polygon &); ran tells whether
\* insert_constraint was called
apply_polygon(vp, ce, poly) ==
    IF Len(poly) < MinPolygon
    THEN [err |-> "invalid_argument", vp |-> vp, ce |-> ce, ran |-> FALSE]
    ELSE LET r == insert_constraint(vp, ce, poly)
         IN  [err |-> IF r.thrown THEN "intersection_of_constraints" ELSE "none",
              vp |-> r.vp, ce |-> r.ce, ran |-> TRUE]

\* apply_constraint_polygon(region_x, region_y)
apply_constraint_polygon(vp, ce, region_x, region_y) ==
    IF Len(region_x) # Len(region_y)
    THEN [err |-> "invalid_argument", vp |-> vp, ce |-> ce, ran |-> FALSE]
    ELSE apply_polygon(vp, ce,
             [i \in 1..Len(region_x) |-> <<region_x[i], region_y[i]>>])

ApplyConstraintPolygon(region_x, region_y) ==
    /\ alive /\ built /\ ret.op = "none"
    /\ ncalls < MaxApply
    /\ \E r \in {apply_constraint_polygon(vpoint, constrained, region_x, region_y)} :
           /\ ncalls' = IF r.ran THEN ncalls + 1 ELSE ncalls
           /\ ret' = [NoRet EXCEPT !.op = "apply", !.err = r.err,
                                   !.nx = Len(region_x), !.ny = Len(region_y)]
           /\ IF ~r.ran
              THEN UNCHANGED <<vpoint, vinfo, faces, in_domain, constrained, applied>>
              ELSE /\ vpoint' = r.vp
                   /\ vinfo' = [h \in Handles(r.vp) |->
                                   IF h <= Len(vinfo) THEN vinfo[h] ELSE Uninit]
                   /\ constrained' = r.ce
                   /\ \E T \in CDTs(r.vp, r.ce) :
                        /\ faces' = T
                        /\ IF r.err = "none"
                           THEN /\ in_domain' = mark_domain_status(T, r.ce)
                                /\ applied' = Append(applied,
                                      [i \in 1..Len(region_x) |->
                                          <<region_x[i], region_y[i]>>])
                           ELSE /\ in_domain' \in StaleFlags(T, faces, in_domain)
                                /\ UNCHANGED applied
    /\ UNCHANGED <<alive, built, points>>
    /\ UNCHANGED <<grib, kdtree, wind, readers>>

(***************************************************************************)
(* Point location and interpolation weights.                               *)
(***************************************************************************)
Rotations(f) == {<<f[1], f[2], f[3]>>, <<f[2], f[3], f[1]>>, <<f[3], f[1], f[2]>>}

IsHit(lt) == lt \in {"FACE", "EDGE", "VERTEX"}

\* t_CDT::locate(point, locate_type, dmy [, hint.face]): every (locate type, face
\* handle) it may answer.  A face handle is written by its three vertex handles,
\* 0 for a null one: in dimension 2 a hit returns a finite face that holds the
\* point, with any corner as vertex(0); in dimension 1 the faces are the edges
\* and have no vertex(2); in dimension 0, and outside the affine hull, the face
\* handle itself is null.  The hint only starts the walk: it does not change
\* which faces hold the point.
locate(vp, T, q) ==
    LET dim == Dimension(vp)
        holds == {f \in T : InClosedTri(q, vp[f[1]], vp[f[2]], vp[f[3]])}
    IN  IF dim = 2
        THEN IF holds = {}
             THEN {[lt |-> "OUTSIDE_CONVEX_HULL", face |-> Inf]}
             ELSE LET lt == IF \E h \in Handles(vp) : vp[h] = q THEN "VERTEX"
                            ELSE IF \E f \in holds : \E e \in FaceEdges(f) :
                                       \E a, b \in e : Between(vp[a], q, vp[b])
                                 THEN "EDGE"
                                 ELSE "FACE"
                  IN  {[lt |-> lt, face |-> g] : g \in UNION {Rotations(f) : f \in holds}}
        ELSE IF dim = 1
        THEN IF \E a, b \in Handles(vp) : Orient(vp[a], vp[b], q) # 0
             THEN {[lt |-> "OUTSIDE_AFFINE_HULL", face |-> <<0, 0, 0>>]}
             ELSE IF \E h \in Handles(vp) : vp[h] = q
             THEN {[lt |-> "VERTEX", face |-> <<a, b, 0>>] :
                      a \in {h \in Handles(vp) : vp[h] = q},
                      b \in {h \in Handles(vp) : vp[h] # q}}
             ELSE IF \E a, b \in Handles(vp) : Between(vp[a], q, vp[b])
             THEN {[lt |-> "EDGE", face |-> <<e[1], e[2], 0>>] :
                      e \in {d \in Handles(vp) \X Handles(vp) :
                                Between(vp[d[1]], q, vp[d[2]])}}
             ELSE {[lt |-> "OUTSIDE_CONVEX_HULL", face |-> Inf]}
        ELSE IF vp[1] = q
             THEN {[lt |-> "VERTEX", face |-> <<0, 0, 0>>]}
             ELSE {[lt |-> "OUTSIDE_AFFINE_HULL", face |-> <<0, 0, 0>>]}

Dot(ax, ay, bx, by) == (ax * bx) + (ay * by)

\* the three weights of lines 223-241 as exact fractions num[i] / den, in the
\* order the code returns them
Weights(bary_w, bary_v, bary_u) == <<bary_w, bary_v, bary_u>>

\* the slip of returning the weights in the order they were computed
barycentric_unswapped(p0, p1, p2, point) ==
    LET v0x == p2[1] - p0[1]
        v0y == p2[2] - p0[2]
        v1x == p1[1] - p0[1]
        v1y == p1[2] - p0[2]
        v2x == point[1] - p0[1]
        v2y == point[2] - p0[2]
        dot00 == Dot(v0x, v0y, v0x, v0y)
        dot01 == Dot(v0x, v0y, v1x, v1y)
        dot02 == Dot(v0x, v0y, v2x, v2y)
        dot11 == Dot(v1x, v1y, v1x, v1y)
        dot12 == Dot(v1x, v1y, v2x, v2y)
        denom == dot00 * dot11 - dot01 * dot01
        bary_u == dot11 * dot02 - dot01 * dot12
        bary_v == dot00 * dot12 - dot01 * dot02
        bary_w == denom - bary_u - bary_v
    IN  [num |-> <<bary_w, bary_u, bary_v>>, den |-> denom]

\* the slip of a wrong dot product in bary_u
barycentric_wrong_dot(p0, p1, p2, point) ==
    LET v0x == p2[1] - p0[1]
        v0y == p2[2] - p0[2]
        v1x == p1[1] - p0[1]
        v1y == p1[2] - p0[2]
        v2x == point[1] - p0[1]
        v2y == point[2] - p0[2]
        dot00 == Dot(v0x, v0y, v0x, v0y)
        dot01 == Dot(v0x, v0y, v1x, v1y)
        dot02 == Dot(v0x, v0y, v2x, v2y)
        dot11 == Dot(v1x, v1y, v1x, v1y)
        dot12 == Dot(v1x, v1y, v2x, v2y)
        denom == dot00 * dot11 - dot01 * dot01
        bary_u == dot00 * dot02 - dot01 * dot12
        bary_v == dot00 * dot12 - dot01 * dot02
        bary_w == denom - bary_u - bary_v
    IN  [num |-> Weights(bary_w, bary_v, bary_u), den |-> denom]

\* lines 223-241: bary_u = num_u * inv_denom with inv_denom = 1 / denom, and
\* bary_w = 1 - bary_u - bary_v; over the common denominator denom
barycentric(p0, p1, p2, point) ==
    LET v0x == p2[1] - p0[1]
        v0y == p2[2] - p0[2]
        v1x == p1[1] - p0[1]
        v1y == p1[2] - p0[2]
        v2x == point[1] - p0[1]
        v2y == point[2] - p0[2]
        dot00 == Dot(v0x, v0y, v0x, v0y)
        dot01 == Dot(v0x, v0y, v1x, v1y)
        dot02 == Dot(v0x, v0y, v2x, v2y)
        dot11 == Dot(v1x, v1y, v1x, v1y)
        dot12 == Dot(v1x, v1y, v2x, v2y)
        denom == dot00 * dot11 - dot01 * dot01
        bary_u == dot11 * dot02 - dot01 * dot12
        bary_v == dot00 * dot12 - dot01 * dot02
        bary_w == denom - bary_u - bary_v
    IN  [num |-> Weights(bary_w, bary_v, bary_u), den |-> denom]

\* vertex(i)->info(): the index add_mesh_points stored, or whatever the
\* never-assigned unsigned holds (g)
ReadInfo(vi, h, g) == IF vi[h] = Uninit THEN g[h] ELSE vi[h]

\* InterpolationWeight(): the invalid weight
InvalidWeight(q, lt) ==
    [NoRet EXCEPT !.op = "weight", !.q = q, !.lt = lt, !.valid = FALSE,
                  !.vertices = <<0, 0, 0>>, !.num = <<0, 0, 0>>, !.den = 1]

\* get_interpolation_weight(point, hint) once locate has answered o; g is what
\* the reads of never-assigned infos yield.  Dereferencing a null face or vertex
\* handle ends the process.
get_interpolation_weight(vp, vi, o, q, g) ==
    IF IsHit(o.lt)
    THEN IF 0 \in {o.face[1], o.face[2], o.face[3]}
         THEN [InvalidWeight(q, o.lt) EXCEPT !.err = "crash"]
         ELSE LET b == barycentric(vp[o.face[1]], vp[o.face[2]], vp[o.face[3]], q)
              IN  [InvalidWeight(q, o.lt) EXCEPT
                      !.valid = TRUE, !.face = o.face,
                      !.vertices = [i \in 1..3 |-> ReadInfo(vi, o.face[i], g)],
                      !.num = b.num, !.den = b.den]
    ELSE InvalidWeight(q, o.lt)

\* what the reads of the never-assigned infos among the handles hs may yield
InfoReads(vi, hs) ==
    [{h \in hs : h # 0 /\ vi[h] = Uninit} -> Garbage]

\* the same, for the accessors that read every vertex: the cases followed are
\* those of one value held by all the never-assigned infos
InfoReadsAlike(vi, hs) ==
    {g \in InfoReads(vi, hs) : \A h, k \in DOMAIN g : g[h] = g[k]}

\* get_interpolation_weight(pt_x, pt_y), a fresh hint each call
GetInterpolationWeight(q) ==
    /\ alive /\ built /\ ret.op = "none"
    /\ \E o \in locate(vpoint, faces, q) :
       \E g \in InfoReads(vinfo, IF IsHit(o.lt) THEN {o.face[i] : i \in 1..3} ELSE {}) :
       \E r \in {get_interpolation_weight(vpoint, vinfo, o, q, g)} :
           /\ ret' = r
           /\ alive' = (r.err # "crash")
    /\ UNCHANGED <<built, points, vpoint, vinfo, faces, in_domain, constrained,
                   applied, ncalls>>
    /\ UNCHANGED <<grib, kdtree, wind, readers>>

(***************************************************************************)
(* Accessors.                                                              *)
(***************************************************************************)
\* a set of faces as a sequence, in the order the face iterator visits them
RECURSIVE FaceSeq(_)
FaceSeq(S) ==
    IF S = {} THEN <<>>
    ELSE LET f == CHOOSE x \in S : \A y \in S :
                      \/ x[1] < y[1]
                      \/ (x[1] = y[1] /\ x[2] < y[2])
                      \/ (x[1] = y[1] /\ x[2] = y[2] /\ x[3] <= y[3])
         IN  <<f>> \o FaceSeq(S \ {f})

\* the slip of leaving out the is_in_domain() test
get_triangles_all_faces(vi, T, flags, g) ==
    LET fs == FaceSeq(T)
    IN  [k \in 1..Len(fs) |->
            [face |-> fs[k],
             vertices |-> [i \in 1..3 |-> ReadInfo(vi, fs[k][i], g)]]]

\* get_triangles: one t_Triangle per finite face whose flag is set
get_triangles(vi, T, flags, g) ==
    LET fs == FaceSeq({fit \in T : fit \in flags})
    IN  [k \in 1..Len(fs) |->
            [face |-> fs[k],
             vertices |-> [i \in 1..3 |-> ReadInfo(vi, fs[k][i], g)]]]

GetTriangles ==
    /\ alive /\ built /\ ret.op = "none"
    /\ \E g \in InfoReadsAlike(vinfo, UNION {{f[1], f[2], f[3]} : f \in faces \cap in_domain}) :
           ret' = [NoRet EXCEPT !.op = "triangles",
                                !.tris = get_triangles(vinfo, faces, in_domain, g)]
    /\ UNCHANGED <<alive, built, points, vpoint, vinfo, faces, in_domain,
                   constrained, applied, ncalls>>
    /\ UNCHANGED <<grib, kdtree, wind, readers>>

\* get_vertices: a vector of as many points as there are finite vertices, and
\* vertices[vit->info()] written for each vertex.  w[k] is the vertex whose
\* write to element k came last (0: none wrote it); a write at or beyond the
\* vector's size is out of bounds.
get_vertices(vp, vi, g, w) ==
    LET num_vertices == Len(vp)
    IN  [verts |-> [k \in 1..num_vertices |->
                      IF w[k - 1] = 0 THEN Unset ELSE vp[w[k - 1]]],
         oob |-> \E vit \in Handles(vp) : ReadInfo(vi, vit, g) >= num_vertices]

\* the last writer of each element, for the vertex iterator running through
\* the vertices in the order of their handles or in the reverse order
LastWrites(vp, vi, g) ==
    {[k \in 0..(Len(vp) - 1) |->
         LET writers == {h \in Handles(vp) : ReadInfo(vi, h, g) = k}
         IN  IF writers = {} THEN 0
             ELSE IF forward THEN CHOOSE h \in writers : \A j \in writers : j <= h
             ELSE CHOOSE h \in writers : \A j \in writers : h <= j] :
     forward \in BOOLEAN}

GetVertices ==
    /\ alive /\ built /\ ret.op = "none"
    /\ \E g \in InfoReadsAlike(vinfo, Handles(vpoint)) :
       \E w \in LastWrites(vpoint, vinfo, g) :
       \E r \in {get_vertices(vpoint, vinfo, g, w)} :
       \E crash \in (IF r.oob THEN BOOLEAN ELSE {FALSE}) :
           /\ ret' = [NoRet EXCEPT !.op = "vertices", !.verts = r.verts,
                                   !.oob = r.oob,
                                   !.err = IF crash THEN "crash" ELSE "none"]
           /\ alive' = ~crash
    /\ UNCHANGED <<built, points, vpoint, vinfo, faces, in_domain, constrained,
                   applied, ncalls>>
    /\ UNCHANGED <<grib, kdtree, wind, readers>>

(***************************************************************************)
(* The driver (Meteorology::to_wind_grid), one destination cell: steps 4a  *)
(* to 4e of the resampling algorithm, over the triangulation of the source *)
(* points constrained by the coverage polygon.  Values are exact fractions *)
(* [num, den].  The sources report pressure in hPa and the winds in m/s,   *)
(* so the scaling of step 4f is 1.                                         *)
(***************************************************************************)
\* the background of the pressure component and of every other component
BackgroundPressure == 1013
BackgroundOther == 0

\* the two snapshots' values at the source point of index k (from 0): S1 and
\* S2 of the pressure, S1 and S2 of the wind component u
Snapshot(var, n) ==
    [k \in 1..n |-> IF var = "p1" THEN 1000 + k
                    ELSE IF var = "p2" THEN 990 + k
                    ELSE IF var = "u1" THEN 4 + k
                    ELSE 8 + k]

\* what a read past the end of a snapshot's values may yield
OobValues == {0, 2000}

\* Geometry::is_inside: even-odd ray casting, a point on an edge is inside
is_inside(poly, p) ==
    LET n == Len(poly)
        a(i) == poly[i]
        b(i) == poly[(i % n) + 1]
        onEdge(i) == p = a(i) \/ p = b(i) \/ Between(a(i), p, b(i))
        crosses(i) ==
            \/ a(i)[2] <= p[2] /\ p[2] < b(i)[2] /\ Orient(a(i), b(i), p) > 0
            \/ b(i)[2] <= p[2] /\ p[2] < a(i)[2] /\ Orient(a(i), b(i), p) < 0
    IN  \/ \E i \in 1..n : onEdge(i)
        \/ Cardinality({i \in 1..n : crosses(i)}) % 2 = 1

\* the lambda of InterpolationWeight::interpolate without its valid() test
interpolate_unguarded(w, values, v) ==
    LET val(i) == IF w.vertices[i] < Len(values)
                  THEN values[w.vertices[i] + 1] ELSE v
    IN  [nan |-> FALSE,
         num |-> w.num[1] * val(1) + w.num[2] * val(2) + w.num[3] * val(3),
         den |-> w.den,
         read |-> {w.vertices[i] : i \in 1..3}]

\* InterpolationWeight::interpolate for one weight: NaN for an invalid weight,
\* else the weighted sum of the values at the weight's three indices; v is what
\* a read past the end of values yields, read the indices of values it read
interpolate(w, values, v) ==
    IF ~w.valid
    THEN [nan |-> TRUE, num |-> 0, den |-> 1, read |-> {}]
    ELSE LET val(i) == IF w.vertices[i] < Len(values)
                       THEN values[w.vertices[i] + 1] ELSE v
         IN  [nan |-> FALSE,
              num |-> w.num[1] * val(1) + w.num[2] * val(2) + w.num[3] * val(3),
              den |-> w.den,
              read |-> {w.vertices[i] : i \in 1..3}]

\* the source points nearest to the cell (the spatial index's answer)
Nearest(pts, cell) ==
    {k \in 1..Len(pts) : \A j \in 1..Len(pts) : Dist2(pts[k], cell) <= Dist2(pts[j], cell)}

\* (1 - alpha) * a + alpha * b for fractions a, b and alpha = an / ad
Blend(a, b, an, ad) ==
    [num |-> (ad - an) * a.num * b.den + an * b.num * a.den,
     den |-> ad * a.den * b.den]

\* steps 4b to 4e for one component of one cell
cell_value(w1, w2, s1, s2, near, an, ad, background, backfill, v) ==
    IF ~w1.valid /\ ~w2.valid
    THEN IF backfill
         THEN Blend([num |-> s1[near], den |-> 1], [num |-> s2[near], den |-> 1], an, ad)
         ELSE [num |-> background, den |-> 1]
    ELSE IF ~w2.valid
    THEN [num |-> interpolate(w1, s1, v).num, den |-> w1.den]
    ELSE IF ~w1.valid
    THEN [num |-> interpolate(w2, s2, v).num, den |-> w2.den]
    ELSE Blend(interpolate(w1, s1, v), interpolate(w2, s2, v), an, ad)

\* the time weights handed to the driver, as fractions
TimeWeights == {<<0, 1>>, <<1, 2>>, <<1, 1>>}

\* Meteorology::to_wind_grid for the destination cell: the triangulation was
\* built over the source points and constrained once, by the coverage polygon
ToWindGrid(cell, backfill, tw) ==
    /\ alive /\ built /\ ret.op = "none"
    /\ ncalls = 1 /\ Len(applied) = 1
    /\ \E o1, o2 \in locate(vpoint, faces, cell) :
       \E g \in InfoReadsAlike(vinfo, IF IsHit(o1.lt) THEN {o1.face[i] : i \in 1..3} \cup
                                                           {o2.face[i] : i \in 1..3}
                                      ELSE {}) :
       \E near \in Nearest(points, cell) :
       \E w1 \in {get_interpolation_weight(vpoint, vinfo, o1, cell, g)} :
       \E w2 \in {get_interpolation_weight(vpoint, vinfo, o2, cell, g)} :
       \E v \in (IF \E i \in 1..3 : w1.vertices[i] >= Len(points) \/
                                     w2.vertices[i] >= Len(points)
                 THEN OobValues ELSE {0}) :
           /\ alive' = (w1.err # "crash" /\ w2.err # "crash")
           /\ ret' = IF w1.err = "crash" \/ w2.err = "crash"
                     THEN [NoRet EXCEPT !.op = "to_wind_grid", !.q = cell,
                                        !.err = "crash"]
                     ELSE [NoRet EXCEPT
                              !.op = "to_wind_grid", !.q = cell, !.lt = o1.lt,
                              !.valid = w1.valid,
                              !.out = [backfill |-> backfill,
                                       pressure |-> cell_value(w1, w2,
                                           Snapshot("p1", Len(points)),
                                           Snapshot("p2", Len(points)),
                                           near, tw[1], tw[2],
                                           BackgroundPressure, backfill, v),
                                       u |-> cell_value(w1, w2,
                                           Snapshot("u1", Len(points)),
                                           Snapshot("u2", Len(points)),
                                           near, tw[1], tw[2],
                                           BackgroundOther, backfill, v)]]
    /\ UNCHANGED <<built, points, vpoint, vinfo, faces, in_domain, constrained,
                   applied, ncalls, grib, kdtree, wind, readers>>

(***************************************************************************)
(* The inputs of Spec: meshes and polygons as pairs of coordinate vectors. *)
(***************************************************************************)
Meshes ==
    { <<<<0, 4, 0>>, <<0, 0, 4>>>>,            \* a triangle
      <<<<0, 4, 4, 0>>, <<0, 0, 4, 4>>>>,      \* a square
      <<<<0, 4, 0, 0>>, <<0, 0, 4, 0>>>>,      \* a triangle, one point given twice
      <<<<0, 2, 4>>, <<0, 0, 0>>>>,            \* three points on a line
      <<<<0, 0, 0>>, <<0, 0, 0>>>>,            \* one point given three times
      <<<<0, 4>>, <<0, 0>>>>,                  \* too few points
      <<<<0, 4, 0>>, <<0, 0>>>> }              \* vectors of different lengths

Polygons ==
    { <<<<0, 4, 4, 0, 0>>, <<0, 0, 4, 4, 0>>>>,   \* the square, closed by its first point
      <<<<0, 4, 0>>, <<0, 0, 4>>>>,               \* the lower left triangle
      <<<<2, 4, 2, 0>>, <<0, 2, 4, 2>>>>,         \* the diamond inscribed in the square
      <<<<1, 2, 1>>, <<1, 1, 2>>>>,               \* a small triangle inside
      <<<<0, 4, 0>>, <<0, 4, 0>>>>,               \* there and back along the diagonal
      <<<<2, 5, 2>>, <<1, 1, 3>>>>,               \* a triangle across the square's right side
      <<<<0, 4>>, <<0, 0>>>>,                     \* too few vertices
      <<<<0, 4, 4>>, <<0, 0>>>> }                 \* vectors of different lengths

QueryPoints ==
    { <<0, 0>>, <<4, 4>>, <<1, 0>>, <<2, 2>>, <<1, 2>>, <<3, 2>>, <<5, 5>>, <<6, 0>> }

Next ==
    \/ \E m \in Meshes : Construct(m[1], m[2])
    \/ \E p \in Polygons : ApplyConstraintPolygon(p[1], p[2])
    \/ \E q \in QueryPoints : GetInterpolationWeight(q)
    \/ GetTriangles
    \/ GetVertices
    \/ \E cell \in QueryPoints, backfill \in BOOLEAN, tw \in TimeWeights :
           ToWindGrid(cell, backfill, tw)
    \/ Return

Spec == Init /\ [][Next]_vars

(***************************************************************************)
(* Properties of the constraint polygons.                                  *)
(***************************************************************************)
\* C2: apply_constraint_polygon fails with invalid_argument when the polygon has
\* fewer than 3 vertices or when region_x and region_y differ in length, and
\* such a call inserts no constraint edge (nor anything else).
C2_PolygonArity ==
    [][(ret'.op = "apply" /\ ret.op = "none"
           /\ (ret'.nx # ret'.ny \/ ret'.nx < 3 \/ ret'.ny < 3))
        => /\ ret'.err = "invalid_argument"
           /\ constrained' = constrained
           /\ vpoint' = vpoint
           /\ faces' = faces]_vars

C2_Witness ==
    /\ ret.op = "apply" /\ ret.err = "invalid_argument"
    /\ ret.nx = ret.ny /\ ret.nx < 3
    /\ constrained # {}

(***************************************************************************)
(* Properties of the interpolation weights.                                *)
(***************************************************************************)
\* C3: on a built triangulation get_interpolation_weight returns normally for
\* every query point; the weight is valid exactly when locate answers FACE,
\* EDGE or VERTEX, whatever the located face's in_domain flag, and otherwise it
\* is the invalid weight with vertices (0,0,0) and weights (0,0,0).
C3_QueryTotal ==
    ret.op = "weight" =>
        /\ ret.err = "none"
        /\ ret.valid <=> IsHit(ret.lt)
        /\ ret.lt \in {"OUTSIDE_CONVEX_HULL", "OUTSIDE_AFFINE_HULL"} =>
               (~ret.valid /\ ret.vertices = <<0, 0, 0>> /\ ret.num = <<0, 0, 0>>)

\* C4: the three weights of every valid weight sum to 1 and each lies in [0, 1].
C4_ConvexCombination ==
    (ret.op = "weight" /\ ret.valid) =>
        /\ ret.den > 0
        /\ ret.num[1] + ret.num[2] + ret.num[3] = ret.den
        /\ \A i \in 1..3 : 0 <= ret.num[i] /\ ret.num[i] <= ret.den

C4_Witness ==
    /\ ret.op = "weight" /\ ret.valid /\ ret.lt = "FACE"
    /\ \A i \in 1..3 : 0 < ret.num[i] /\ ret.num[i] < ret.den

AffineSamples == {<<2, 3, 1>>, <<0 - 1, 4, 0>>}

\* C5: in a valid weight, weights[i] belongs to the corner vertex(i) of the
\* located face and vertices[i] is the index stored at that corner: the query
\* point is the sum of weights[i] * V_i, and an affine function sampled at the
\* corners interpolates to its value at the query point.
C5_WeightOrder ==
    (ret.op = "weight" /\ ret.valid) =>
        /\ ret.den > 0
        /\ \A c \in 1..2 :
               ret.num[1] * vpoint[ret.face[1]][c]
                 + ret.num[2] * vpoint[ret.face[2]][c]
                 + ret.num[3] * vpoint[ret.face[3]][c] = ret.den * ret.q[c]
        /\ \A f \in AffineSamples :
               LET at(p) == f[1] * p[1] + f[2] * p[2] + f[3]
               IN  ret.num[1] * at(vpoint[ret.face[1]])
                     + ret.num[2] * at(vpoint[ret.face[2]])
                     + ret.num[3] * at(vpoint[ret.face[3]]) = ret.den * at(ret.q)
        /\ \A i \in 1..3 :
               vinfo[ret.face[i]] # Uninit =>
                   /\ ret.vertices[i] = vinfo[ret.face[i]]
                   /\ points[ret.vertices[i] + 1] = vpoint[ret.face[i]]

C5_Witness ==
    /\ ret.op = "weight" /\ ret.valid
    /\ ret.num[1] # ret.num[2] /\ ret.num[2] # ret.num[3] /\ ret.num[1] # ret.num[3]
    /\ \A i \in 1..3 : vinfo[ret.face[i]] # Uninit

\* C6: a query at the coordinates of input point k returns a valid weight with
\* one component equal to 1 and carrying the index k, the other two equal to 0.
C6_InputPointQuery ==
    ret.op = "weight" =>
        \A k \in 1..Len(points) :
            points[k] = ret.q =>
                /\ ret.err = "none"
                /\ ret.valid
                /\ \E i \in 1..3 :
                       /\ ret.num[i] = ret.den
                       /\ ret.vertices[i] = k - 1
                       /\ \A j \in (1..3) \ {i} : ret.num[j] = 0

\* C7: after any constraint insertions, a valid weight names three distinct
\* indices, each in [0, N) for the N input points, each the input index of the
\* point at that corner of the located face.
C7_VertexIndices ==
    (ret.op = "weight" /\ ret.valid) =>
        /\ Cardinality({ret.vertices[i] : i \in 1..3}) = 3
        /\ \A i \in 1..3 :
               /\ ret.vertices[i] \in 0..(Len(points) - 1)
               /\ points[ret.vertices[i] + 1] = vpoint[ret.face[i]]

(***************************************************************************)
(* Properties of the accessors and of the domain flags.                    *)
(***************************************************************************)
\* C8: get_vertices returns the N input points by input index, element k being
\* (x[k], y[k]), in every state constraint insertions reach, and writes inside
\* the returned vector only.
C8_VerticesByIndex ==
    ret.op = "vertices" =>
        /\ ret.err = "none"
        /\ ~ret.oob
        /\ Len(ret.verts) = Len(points)
        /\ \A k \in 1..Len(points) : ret.verts[k] = points[k]

\* the least number of constrained edges crossed on a way from the infinite face
RECURSIVE Relax(_, _, _)
Relax(hull, ce, d) ==
    LET Least(S) == CHOOSE x \in S : \A y \in S : x <= y
        d2 == [n \in DOMAIN d |->
                  Least({d[n]} \cup UNION {
                      {d[m] + (IF e \in ce THEN 1 ELSE 0) :
                          e \in NodeEdges(hull, n) \cap NodeEdges(hull, m)} :
                      m \in (DOMAIN d) \ {n}})]
    IN  IF d2 = d THEN d ELSE Relax(hull, ce, d2)

Crossings(T, ce) ==
    Relax(BorderEdges(T), ce,
          [n \in T \cup {Inf} |-> IF n = Inf THEN 0 ELSE Cardinality(T) + 1])

\* C9: after every apply_constraint_polygon call the in_domain flag of each
\* finite face is the parity of the constrained edges crossed from the infinite
\* face, over all the constraints inserted so far; no face keeps a flag of an
\* earlier marking.
C9_ParityRule ==
    ret.op = "apply" =>
        \E d \in {Crossings(faces, constrained)} :
            in_domain = {f \in faces : d[f] % 2 = 1}

\* C10: get_triangles returns one index triple for each finite face whose
\* in_domain flag is set, and none for any other face.
C10_TrianglesInDomain ==
    ret.op = "triangles" =>
        /\ \A k \in 1..Len(ret.tris) :
               /\ ret.tris[k].face \in faces
               /\ ret.tris[k].face \in in_domain
               /\ \A i \in 1..3 :
                      vinfo[ret.tris[k].face[i]] # Uninit =>
                          ret.tris[k].vertices[i] = vinfo[ret.tris[k].face[i]]
        /\ \A f \in faces \cap in_domain :
               Cardinality({k \in 1..Len(ret.tris) : ret.tris[k].face = f}) = 1
        /\ Len(ret.tris) = Cardinality(faces \cap in_domain)

C10_Witness ==
    /\ ret.op = "triangles"
    /\ Len(ret.tris) >= 2
    /\ Len(ret.tris) < Cardinality(faces)

\* C11: when the face locate returns for a query is degenerate (its corners
\* are collinear, so the barycentric denominator is 0), the query is treated as
\* outside the triangulation: the call returns the invalid weight.
C11_DegenerateFace ==
    (ret.op = "weight" /\ IsHit(ret.lt) /\ Dimension(vpoint) < 2) =>
        (ret.err = "none" /\ ~ret.valid)

\* C12: for a destination cell outside the coverage polygon, with backfill
\* disabled, the driver's output is the background (1013 for the pressure, 0 for
\* the other components), also for a cell inside the convex hull of the
\* triangulated points.
C12_OutsideCoverageIsBackground ==
    (/\ ret.op = "to_wind_grid" /\ ret.err = "none"
     /\ ~ret.out.backfill
     /\ ~is_inside(applied[1], ret.q)) =>
        /\ ret.out.pressure.num = BackgroundPressure * ret.out.pressure.den
        /\ ret.out.u.num = BackgroundOther * ret.out.u.den

(***************************************************************************)
(* The library functions outside the triangulation: a call of one of them  *)
(* leaves the triangulation alone.                                         *)
(***************************************************************************)
trivars == <<alive, built, points, vpoint, vinfo, faces, in_domain, constrained,
             applied, ncalls>>

(***************************************************************************)
(* The time weight.  Dates are whole seconds.                              *)
(***************************************************************************)
\* the latest date handed to generate_time_weight
MaxTime == 4

\* the plain fraction, with no test of the ends
generate_time_weight_unclamped(t1, t2, t_output) ==
    [num |-> t_output - t1, den |-> t2 - t1]

\* Meteorology::generate_time_weight(t1, t2, t_output), as the fraction
\* num / den: 0 when t_output <= t1, 1 when t_output >= t2, the linear
\* fraction otherwise, the tests made in this order
generate_time_weight(t1, t2, t_output) ==
    IF t_output <= t1 THEN [num |-> 0, den |-> 1]
    ELSE IF t_output >= t2 THEN [num |-> 1, den |-> 1]
    ELSE [num |-> t_output - t1, den |-> t2 - t1]

GenerateTimeWeight(t1, t2, t_output) ==
    /\ alive /\ ret.op = "none"
    /\ ret' = [NoRet EXCEPT !.op = "time_weight",
                            !.out = [t1 |-> t1, t2 |-> t2, t_output |-> t_output,
                                     w |-> generate_time_weight(t1, t2, t_output)]]
    /\ UNCHANGED <<trivars, grib, kdtree, wind, readers>>

\* the weight w is the fraction a / b
IsFraction(w, a, b) == w.den # 0 /\ b # 0 /\ w.num * b = a * w.den

KdCoord == {0, 1}

\* KdtreePrivate::build: 1 when the sizes differ, else the cloud is filled,
\* the tree is built and m_initialized is set
build(x, y) ==
    IF Len(x) # Len(y)
    THEN [code |-> 1, m_initialized |-> FALSE, pts |-> <<>>]
    ELSE [code |-> 0, m_initialized |-> TRUE,
          pts |-> [i \in 1..Len(x) |-> <<x[i], y[i]>>]]

\* KdtreePrivate::KdtreePrivate(x, y): m_initialized(false), then build(x, y),
\* whose return value is not looked at
KdtreePrivate(x, y) ==
    [constructed |-> TRUE, m_initialized |-> build(x, y).m_initialized,
     pts |-> build(x, y).pts]

\* KdtreePrivate::size()
size(t) == Len(t.pts)

\* Kdtree(x, y): the constructor returns normally whatever build answered
KdtreeConstruct(x, y) ==
    /\ alive /\ ret.op = "none"
    /\ ~kdtree.constructed
    /\ kdtree' = KdtreePrivate(x, y)
    /\ ret' = [NoRet EXCEPT !.op = "kdtree", !.nx = Len(x), !.ny = Len(y)]
    /\ UNCHANGED <<trivars, grib, wind, readers>>

\* the input indices (from 0) of the cloud by increasing squared distance to q,
\* equal distances by increasing index: the order nanoflann's result sets are
\* taken to hand the matches out in
ByDistance(pts, q) ==
    LET n == Len(pts)
        before(j, i) == \/ Dist2(pts[j], q) < Dist2(pts[i], q)
                        \/ Dist2(pts[j], q) = Dist2(pts[i], q) /\ j < i
        rank(i) == Cardinality({j \in 1..n : before(j, i)})
    IN  [k \in 1..n |-> (CHOOSE i \in 1..n : rank(i) = k - 1) - 1]

\* m_tree->findNeighbors with a KNNResultSet of capacity n: the n closest
\* points, each with its squared distance
findNeighbors(pts, q, n) ==
    [k \in 1..n |-> [index |-> ByDistance(pts, q)[k],
                     dist_sqr |-> Dist2(pts[ByDistance(pts, q)[k] + 1], q)]]

\* m_tree->radiusSearch(query_pt, search_radius, matches, m_params): the
\* points whose squared distance is at most search_radius
radiusSearch(pts, q, search_radius) ==
    LET all == findNeighbors(pts, q, Len(pts))
        n == Cardinality({k \in 1..Len(pts) : all[k].dist_sqr <= search_radius})
    IN  SubSeq(all, 1, n)

\* std::sqrt on the squared distances of the grid: exact on the squares, the
\* integer part elsewhere
sqrt(d) == CHOOSE r \in 0..d : r * r <= d /\ (r + 1) * (r + 1) > d

\* std::min for size_t
min(a, b) == IF b < a THEN b ELSE a

\* KdtreePrivate::findNearest(x, y): a null m_tree is dereferenced when build
\* never made the tree; index is returned as findNeighbors left it, g being
\* what the never-assigned size_t holds when the cloud is empty
findNearest(t, q, g) ==
    IF ~t.m_initialized THEN [err |-> "crash", index |-> 0]
    ELSE IF size(t) = 0 THEN [err |-> "none", index |-> g]
    ELSE [err |-> "none", index |-> findNeighbors(t.pts, q, 1)[1].index]

\* KdtreePrivate::findXNearest(x, y, n)
findXNearest(t, q, n) ==
    LET m == min(size(t), n)
    IN  IF ~t.m_initialized THEN [err |-> "crash", output |-> <<>>]
        ELSE [err |-> "none",
              output |-> [i \in 1..m |->
                             <<findNeighbors(t.pts, q, m)[i].index,
                               sqrt(findNeighbors(t.pts, q, m)[i].dist_sqr)>>]]

\* KdtreePrivate::findWithinRadius(x, y, radius)
findWithinRadius(t, q, radius) ==
    LET search_radius == radius * radius
        matches == radiusSearch(t.pts, q, search_radius)
    IN  IF ~t.m_initialized THEN [err |-> "crash", outMatches |-> <<>>]
        ELSE [err |-> "none",
              outMatches |-> [i \in 1..Len(matches) |-> matches[i].index]]

FindNearest(q) ==
    /\ alive /\ ret.op = "none"
    /\ kdtree.constructed
    /\ \E g \in IF kdtree.m_initialized /\ size(kdtree) = 0 THEN Garbage ELSE {0} :
       \E r \in {findNearest(kdtree, q, g)} :
        /\ ret' = [NoRet EXCEPT !.op = "find_nearest", !.err = r.err,
                                !.out = [q |-> q, index |-> r.index]]
        /\ alive' = (r.err # "crash")
    /\ UNCHANGED <<built, points, vpoint, vinfo, faces, in_domain, constrained,
                   applied, ncalls, grib, kdtree, wind, readers>>

FindXNearest(q, n) ==
    /\ alive /\ ret.op = "none"
    /\ kdtree.constructed
    /\ \E r \in {findXNearest(kdtree, q, n)} :
        /\ ret' = [NoRet EXCEPT !.op = "find_k_nearest", !.err = r.err,
                                !.out = [q |-> q, k |-> n, output |-> r.output]]
        /\ alive' = (r.err # "crash")
    /\ UNCHANGED <<built, points, vpoint, vinfo, faces, in_domain, constrained,
                   applied, ncalls, grib, kdtree, wind, readers>>

FindWithinRadius(q, radius) ==
    /\ alive /\ ret.op = "none"
    /\ kdtree.constructed
    /\ \E r \in {findWithinRadius(kdtree, q, radius)} :
        /\ ret' = [NoRet EXCEPT !.op = "find_within_radius", !.err = r.err,
                                !.out = [q |-> q, radius |-> radius,
                                         outMatches |-> r.outMatches]]
        /\ alive' = (r.err # "crash")
    /\ UNCHANGED <<built, points, vpoint, vinfo, faces, in_domain, constrained,
                   applied, ncalls, grib, kdtree, wind, readers>>

(***************************************************************************)
(* The source field (Grib).  A file is the sequence of its messages; a     *)
(* message has a short name, as the decoder hands it out, and the values   *)
(* of its grid points.  Names are sequences of characters.                 *)
(***************************************************************************)
Letters == {"p", "r", "m", "s", "l", "u", "v", "h"}
Digits == {"0", "1"}

isalpha(c) == c \in Letters
isalnum(c) == c \in Letters \cup Digits

\* line 30
isnotalpha(c) == ~isalpha(c) /\ ~isalnum(c)

\* boost::trim_if(pname, isnotalpha): the characters isnotalpha holds for are
\* removed from both ends
trim_if(pname) ==
    LET keep == {i \in 1..Len(pname) : ~isnotalpha(pname[i])}
    IN  IF keep = {} THEN <<>>
        ELSE SubSeq(pname, CHOOSE i \in keep : \A k \in keep : i <= k,
                           CHOOSE j \in keep : \A k \in keep : k <= j)

\* the slip of comparing the short name as the decoder hands it out
RECURSIVE make_handle_untrimmed(_, _, _)
make_handle_untrimmed(names, name, k) ==
    IF k > Len(names) THEN [err |-> "exception", h |-> 0]
    ELSE IF names[k] = name THEN [err |-> "none", h |-> k]
    ELSE make_handle_untrimmed(names, name, k + 1)

\* Grib::make_handle from the k-th message on: the loop of lines 37-50 and the
\* throw of line 52; h is the message the returned handle stands for
RECURSIVE make_handle(_, _, _)
make_handle(names, name, k) ==
    IF k > Len(names) THEN [err |-> "exception", h |-> 0]
    ELSE IF trim_if(names[k]) = name THEN [err |-> "none", h |-> k]
    ELSE make_handle(names, name, k + 1)

\* the handles one make_handle call creates, named by the message each stands
\* for: codes_handle_new_from_file makes one per message read, up to the match
\* or the end of the file
handles_created(names, name) ==
    LET r == make_handle(names, name, 1)
    IN  IF r.err = "none" THEN 1..r.h ELSE 1..Len(names)

\* the handles still held when the caller of make_handle is done: nothing in
\* the loop deletes a handle, and close_handle deletes the returned one
handles_open(names, name) ==
    LET r == make_handle(names, name, 1)
    IN  handles_created(names, name) \ (IF r.err = "none" THEN {r.h} ELSE {})

\* the values of the k-th message of a file, one per grid point
GribValues(k, n) == [i \in 1..n |-> 10 * k + i]

\* std::fmod: the remainder has the sign of x
fmod(x, y) == IF x >= 0 THEN x % y ELSE 0 - ((0 - x) % y)

\* line 146
NormalizeLongitude(v) == fmod(v + 180, 360) - 180

\* Grib::readCoordinates, m_convention being 0
readCoordinates(latitudes, longitudes) ==
    [m_latitude |-> latitudes,
     m_longitude |-> [i \in 1..Len(longitudes) |-> NormalizeLongitude(longitudes[i])]]

\* *std::min_element(first, last) and *std::max_element(first, last) over the
\* elements lo..hi of v; for an empty range the iterator returned is last
MinElement(v, lo, hi) ==
    IF lo > hi THEN v[hi + 1]
    ELSE CHOOSE m \in {v[i] : i \in lo..hi} : \A i \in lo..hi : m <= v[i]
MaxElement(v, lo, hi) ==
    IF lo > hi THEN v[hi + 1]
    ELSE CHOOSE m \in {v[i] : i \in lo..hi} : \A i \in lo..hi : m >= v[i]

\* Grib::findCorners: the first range is begin() .. begin() + m_ni - 1, the
\* second end() - m_ni .. end(), both without their last iterator
findCorners(m_ni, m_longitude, m_latitude) ==
    LET n == Len(m_longitude)
        xtl == MinElement(m_longitude, 1, m_ni - 1)
        xtr == MaxElement(m_longitude, 1, m_ni - 1)
        xll == MinElement(m_longitude, n - m_ni + 1, n)
        xlr == MaxElement(m_longitude, n - m_ni + 1, n)
        ytl == MinElement(m_latitude, 1, m_ni - 1)
        ytr == MaxElement(m_latitude, 1, m_ni - 1)
        yll == MinElement(m_latitude, n - m_ni + 1, n)
        ylr == MaxElement(m_latitude, n - m_ni + 1, n)
    IN  << <<xll, yll>>, <<xlr, ylr>>, <<xtr, ytr>>, <<xtl, ytl>> >>

Prmsl == <<"p", "r", "m", "s", "l">>

\* Grib::Grib(filename) on a file of the messages names over the grid g
GribConstruct(names, g) ==
    /\ alive /\ ret.op = "none"
    /\ ~grib.loaded
    /\ LET handle == make_handle(names, Prmsl, 1)
           c == readCoordinates(g.lat, g.lon)
       IN  IF handle.err # "none"
           THEN /\ ret' = [NoRet EXCEPT
                              !.op = "grib", !.err = handle.err,
                              !.out = [file |-> names, file_open |-> FALSE,
                                       handles |-> handles_open(names, Prmsl)]]
                /\ UNCHANGED grib
           ELSE /\ grib' = [NoGrib EXCEPT
                               !.loaded = TRUE, !.file = names, !.decoded = g.lon,
                               !.m_ni = g.ni, !.m_nj = g.nj, !.m_size = Len(g.lon),
                               !.m_latitude = c.m_latitude,
                               !.m_longitude = c.m_longitude,
                               !.m_tree = KdtreePrivate(c.m_longitude, c.m_latitude),
                               !.m_corners = findCorners(g.ni, c.m_longitude,
                                                         c.m_latitude)]
                /\ ret' = [NoRet EXCEPT
                              !.op = "grib",
                              !.out = [file |-> names, file_open |-> FALSE,
                                       handles |-> handles_open(names, Prmsl)]]
    /\ UNCHANGED <<trivars, kdtree, wind, readers>>

\* the slip of storing nothing in the cache
getGribArray1d_uncached(g, name) ==
    LET handle == make_handle(g.file, name, 1)
    IN  IF handle.err # "none"
        THEN [g |-> [g EXCEPT !.reads = Append(@, name)], err |-> handle.err,
              read |-> TRUE, arr |-> <<>>]
        ELSE [g |-> [g EXCEPT !.reads = Append(@, name)], err |-> "none",
              read |-> TRUE, arr |-> GribValues(handle.h, g.m_size)]

\* Grib::getGribArray1d(name): the field afterwards, the array returned (or the
\* exception), and whether the decoder was read.  reads logs the names the
\* decoder was read for.
getGribArray1d(g, name) ==
    IF \A pvm \in g.m_preread_value_map : pvm[1] # name
    THEN LET handle == make_handle(g.file, name, 1)
             arr1d == GribValues(handle.h, g.m_size)
             values == Append(g.m_preread_values, arr1d)
         IN  IF handle.err # "none"
             THEN [g |-> [g EXCEPT !.reads = Append(@, name)],
                   err |-> handle.err, read |-> TRUE, arr |-> <<>>]
             ELSE [g |-> [g EXCEPT
                             !.reads = Append(@, name),
                             !.m_preread_values = values,
                             !.m_preread_value_map =
                                 @ \cup {<<name, Len(values) - 1>>}],
                   err |-> "none", read |-> TRUE, arr |-> values[Len(values)]]
    ELSE LET pvm == CHOOSE e \in g.m_preread_value_map : e[1] = name
         IN  [g |-> g, err |-> "none", read |-> FALSE,
              arr |-> g.m_preread_values[pvm[2] + 1]]

\* most getGribArray1d calls on one source field
MaxCalls == 3

GetGribArray1d(name) ==
    /\ alive /\ ret.op = "none"
    /\ grib.loaded
    /\ Len(grib.calls) < MaxCalls
    /\ \E r \in {getGribArray1d(grib, name)} :
        /\ grib' = [r.g EXCEPT !.calls = Append(@, [name |-> name, err |-> r.err,
                                                    read |-> r.read, arr |-> r.arr])]
        /\ ret' = [NoRet EXCEPT !.op = "values_1d", !.err = r.err,
                                !.out = [name |-> name, arr |-> r.arr,
                                         file_open |-> FALSE,
                                         handles |-> IF r.read
                                                     THEN handles_open(grib.file, name)
                                                     ELSE {}]]
    /\ UNCHANGED <<trivars, kdtree, wind, readers>>

\* the slip of dividing by the other dimension
indexToPair_ni(g, index) ==
    [i |-> index \div g.m_ni, j |-> index % g.m_ni]

\* Grib::indexToPair(index)
indexToPair(g, index) ==
    [i |-> index \div g.m_nj, j |-> index % g.m_nj]

IndexToPair(index) ==
    /\ alive /\ ret.op = "none"
    /\ grib.loaded
    /\ ret' = [NoRet EXCEPT !.op = "index_to_pair",
                            !.out = [index |-> index,
                                     pair |-> indexToPair(grib, index)]]
    /\ UNCHANGED <<trivars, grib, kdtree, wind, readers>>

\* Grib::make_handle(filename, name), called on its own
MakeHandle(names, name) ==
    /\ alive /\ ret.op = "none"
    /\ ret' = [NoRet EXCEPT !.op = "make_handle",
                            !.err = make_handle(names, name, 1).err,
                            !.out = [names |-> names, name |-> name,
                                     h |-> make_handle(names, name, 1).h]]
    /\ UNCHANGED <<trivars, grib, kdtree, wind, readers>>

(***************************************************************************)
(* The inputs of the library specifications.                               *)
(***************************************************************************)
U10 == <<"1", "0", "u">>
V10 == <<"1", "0", "v">>
Rh == <<"r", "h">>

\* short names as the decoder hands them out
RawNames ==
    { Prmsl, <<" ">> \o Prmsl \o <<" ">>, <<".">> \o Prmsl,
      <<"p", "r", ".", "m", "s", "l">>,
      U10, U10 \o <<".">>, <<" ", ".">> \o V10, <<".", " ">>, <<>> }

\* most messages of a file handed to make_handle on its own
MaxRecords == 2

RequestedNames == {Prmsl, U10, V10, Rh, <<>>, <<".">> \o Prmsl}

\* the files a source field is loaded from
GribFiles ==
    { << <<" ">> \o Prmsl \o <<" ">>, U10 \o <<".">>, V10 >>,
      << U10, <<"p", "r", ".", "m", "s", "l">>, Prmsl, <<".">> \o Prmsl >>,
      << U10, V10 >> }

\* the grids: Ni, Nj and the coordinates the decoder hands out, in degrees
Grids ==
    { [ni |-> 2, nj |-> 2, lon |-> <<0, 10, 0, 10>>, lat |-> <<10, 10, 0, 0>>],
      [ni |-> 3, nj |-> 2, lon |-> <<0, 5, 10, 0, 5, 10>>,
                           lat |-> <<0, 0, 0, 10, 10, 10>>],
      [ni |-> 2, nj |-> 2, lon |-> <<180, 370, 180, 370>>, lat |-> <<10, 10, 0, 0>>],
      [ni |-> 2, nj |-> 2, lon |-> <<-190, -170, -190, -170>>,
                           lat |-> <<10, 10, 0, 0>>],
      [ni |-> 1, nj |-> 3, lon |-> <<5, 5, 5>>, lat |-> <<10, 5, 0>>],
      [ni |-> 2, nj |-> 3, lon |-> <<0, 10, 1, 11, 2, 12>>,
                           lat |-> <<10, 11, 5, 6, 0, 1>>] }

\* the weights handed to interpolate: the invalid weight of the default
\* constructor, weights of the two-argument constructor over values 0..2, and
\* one whose third index is past the end of every value array
WeightSamples ==
    {[valid |-> FALSE, vertices |-> <<0, 0, 0>>, num |-> <<0, 0, 0>>, den |-> 1],
     [valid |-> TRUE, vertices |-> <<0, 1, 2>>, num |-> <<1, 1, 2>>, den |-> 4],
     [valid |-> TRUE, vertices |-> <<2, 0, 1>>, num |-> <<0, 0, 4>>, den |-> 4],
     [valid |-> TRUE, vertices |-> <<1, 1, 0>>, num |-> <<2, 1, 1>>, den |-> 4],
     [valid |-> TRUE, vertices |-> <<0, 1, 5>>, num |-> <<1, 2, 1>>, den |-> 4]}

MaxWeights == 2

\* the value arrays handed to interpolate
ValueSamples == {<<>>, <<10, 20, 30>>, <<7, 7, 9>>, <<0, 8>>}

\* InterpolationWeight::interpolate(weights, values): std::ranges::transform
\* appends one result per weight, in order
Interpolate(weights, values) ==
    /\ alive /\ ret.op = "none"
    /\ \E v \in IF \E k \in 1..Len(weights) : weights[k].valid /\
                        \E i \in 1..3 : weights[k].vertices[i] >= Len(values)
                 THEN OobValues ELSE {0} :
           ret' = [NoRet EXCEPT
                      !.op = "interpolate",
                      !.out = [weights |-> weights, values |-> values,
                               results |-> [k \in 1..Len(weights) |->
                                               interpolate(weights[k], values, v)]]]
    /\ UNCHANGED <<trivars, grib, kdtree, wind, readers>>

NextStatic ==
    \/ \E weights \in SeqsUpTo(WeightSamples, MaxWeights), values \in ValueSamples :
           Interpolate(weights, values)
    \/ \E t1, t2, t_output \in 0..MaxTime : GenerateTimeWeight(t1, t2, t_output)
    \/ \E names \in SeqsUpTo(RawNames, MaxRecords), name \in RequestedNames :
           MakeHandle(names, name)
    \/ Return

SpecStatic == Init /\ [][NextStatic]_vars

NextGrib ==
    \/ \E names \in GribFiles, g \in Grids : GribConstruct(names, g)
    \/ \E name \in RequestedNames : GetGribArray1d(name)
    \/ \E index \in 0..(grib.m_ni * grib.m_nj) : IndexToPair(index)
    \/ Return

SpecGrib == Init /\ [][NextGrib]_vars

\* the query points, the radii and the most neighbours asked for
KdQueries == {<<0, 0>>, <<1, 1>>, <<3, 0>>, <<0, 2>>}
KdRadii == {-1, 0, 1, 2}
MaxNeighbours == 3

NextKdtree ==
    \/ \E x, y \in SeqsUpTo(KdCoord, MaxLen) : KdtreeConstruct(x, y)
    \/ \E q \in KdQueries : FindNearest(q)
    \/ \E q \in KdQueries, n \in 0..MaxNeighbours : FindXNearest(q, n)
    \/ \E q \in KdQueries, radius \in KdRadii : FindWithinRadius(q, radius)
    \/ Return

SpecKdtree == Init /\ [][NextKdtree]_vars

(***************************************************************************)
(* The wind field container (WindData).  A matrix is a sequence of nj rows *)
(* of ni values; written keeps, for each cell a set call named, the last   *)
(* value it was called with, and oob_written whether a store outside the   *)
(* matrices was executed.                                                  *)
(***************************************************************************)
Components == {"u", "v", "p"}

\* the member a setter stores into
Member(w, c) == IF c = "u" THEN w.m_u ELSE IF c = "v" THEN w.m_v ELSE w.m_p

\* WindData::WindData(ni, nj); ndebug tells whether the translation unit was
\* compiled with NDEBUG, which removes the assert lines
WindData(ni, nj, ndebug) ==
    [NoWind EXCEPT
        !.constructed = TRUE, !.ndebug = ndebug, !.m_ni = ni, !.m_nj = nj,
        !.m_u = [j \in 1..nj |-> [i \in 1..ni |-> 0]],
        !.m_v = [j \in 1..nj |-> [i \in 1..ni |-> 0]],
        !.m_p = [j \in 1..nj |-> [i \in 1..ni |-> BackgroundPressure]]]

\* the slip of indexing the matrix by [i][j]
store_transposed(w, c, i, j, value) ==
    IF c = "u" THEN [w EXCEPT !.m_u[i + 1][j + 1] = value]
    ELSE IF c = "v" THEN [w EXCEPT !.m_v[i + 1][j + 1] = value]
    ELSE [w EXCEPT !.m_p[i + 1][j + 1] = value]

\* m_u[j][i] = value, m_v[j][i] = value, m_p[j][i] = value
store(w, c, i, j, value) ==
    IF c = "u" THEN [w EXCEPT !.m_u[j + 1][i + 1] = value]
    ELSE IF c = "v" THEN [w EXCEPT !.m_v[j + 1][i + 1] = value]
    ELSE [w EXCEPT !.m_p[j + 1][i + 1] = value]

\* the cells of the container
Cells(w) == {<<c, i, j>> : c \in Components, i \in 0..(w.m_ni - 1), j \in 0..(w.m_nj - 1)}

\* written once a set call has named cell (i, j) of component c
Logged(written, c, i, j, value) ==
    {e \in written : <<e[1], e[2], e[3]>> # <<c, i, j>>} \cup {<<c, i, j, value>>}

WindConstruct(ni, nj, ndebug) ==
    /\ alive /\ ret.op = "none"
    /\ ~wind.constructed
    /\ wind' = WindData(ni, nj, ndebug)
    /\ ret' = [NoRet EXCEPT !.op = "wind", !.nx = ni, !.ny = nj]
    /\ UNCHANGED <<trivars, grib, kdtree, readers>>

\* setU, setV, setP(i, j, value).  With the asserts compiled in, an index
\* outside the matrix aborts the process before the store.  Without them the
\* store goes outside the vectors: the process ends, or the value lands in
\* memory that is no cell, or in some cell of the container.  What the process
\* does after such a store is undefined and is followed no further.
Set(c, i, j, value) ==
    /\ alive /\ ret.op = "none"
    /\ wind.constructed /\ ~wind.oob_written
    /\ LET out == [c |-> c, i |-> i, j |-> j, value |-> value,
                   oob |-> ~(i < wind.m_ni /\ j < wind.m_nj)]
       IN  IF ~out.oob
           THEN /\ wind' = [store(wind, c, i, j, value) EXCEPT
                                !.written = Logged(@, c, i, j, value)]
                /\ ret' = [NoRet EXCEPT !.op = "set", !.out = out]
                /\ UNCHANGED alive
           ELSE IF ~wind.ndebug
           THEN /\ ret' = [NoRet EXCEPT !.op = "set", !.err = "assertion", !.out = out]
                /\ alive' = FALSE
                /\ UNCHANGED wind
           ELSE \/ /\ ret' = [NoRet EXCEPT !.op = "set", !.err = "crash", !.out = out]
                   /\ alive' = FALSE
                   /\ wind' = [wind EXCEPT !.oob_written = TRUE]
                \/ /\ ret' = [NoRet EXCEPT !.op = "set", !.out = out]
                   /\ wind' = [wind EXCEPT !.oob_written = TRUE]
                   /\ UNCHANGED alive
                \/ \E hit \in Cells(wind) :
                       /\ ret' = [NoRet EXCEPT !.op = "set", !.out = out]
                       /\ wind' = [store(wind, hit[1], hit[2], hit[3], value)
                                      EXCEPT !.oob_written = TRUE]
                       /\ UNCHANGED alive
    /\ UNCHANGED <<built, points, vpoint, vinfo, faces, in_domain, constrained,
                   applied, ncalls, grib, kdtree, readers>>

\* the dimensions, the indices and the values of the calls
WindDims == {<<2, 1>>, <<1, 2>>}
WindIndex == 0..1
WindValues == {0, 7}

NextWind ==
    \/ \E d \in WindDims, ndebug \in BOOLEAN : WindConstruct(d[1], d[2], ndebug)
    \/ \E c \in Components, i, j \in WindIndex, value \in WindValues :
           Set(c, i, j, value)
    \/ Return

SpecWind == Init /\ [][NextWind]_vars

(***************************************************************************)
(* The locate hint.  A query call of a thread is followed point by point:   *)
(* todo are the points it has still to locate, hint its local t_LookupHint, *)
(* last the weight of the point it located last.  Constraint insertions are *)
(* made between query calls only (the mutating operations are sequential).  *)
(***************************************************************************)
\* f is a face of T, in the vertex order T holds it in or a rotation of it
IsFaceOf(T, f) == \E x \in T : f \in Rotations(x)

\* the slip of returning the hint's face without walking
locate_from_trusted(vp, T, q, hint) ==
    IF hint.has_hint
    THEN {[lt |-> "FACE", face |-> hint.face]}
    ELSE locate(vp, T, q)

\* m_triangulation->locate(point, lt, li, hint.face) when the hint has a face,
\* locate(point, lt, li) when it has none.  The walk that starts in a face
\* holding the point ends there; from any other face it ends where a walk
\* without hint may end.  Walking from a handle that is no face of the
\* triangulation any more reads freed memory: the answer may be any of
\* locate's, or the process ends.
locate_from(vp, T, q, hint) ==
    IF ~hint.has_hint THEN locate(vp, T, q)
    ELSE IF ~IsFaceOf(T, hint.face)
    THEN locate(vp, T, q) \cup {[lt |-> "DANGLING", face |-> <<0, 0, 0>>]}
    ELSE IF \E o \in locate(vp, T, q) : o.face = hint.face
    THEN {o \in locate(vp, T, q) : o.face = hint.face}
    ELSE locate(vp, T, q)

\* the slip of a hint that stays behind when the call has returned
discard_kept(hint) == hint

\* the end of the scope of the local hint
discard(hint) == NoHint

\* get_interpolation_weights(points_x, points_y) up to the first point: the
\* size test, then t_LookupHint hint; get_interpolation_weights(points) and
\* get_interpolation_weight(point) are the calls with vectors of equal
\* lengths, the latter with one point
BeginQuery(r, points_x, points_y) ==
    /\ alive /\ built /\ ret.op = "none"
    /\ ~readers[r].active
    /\ readers' = [readers EXCEPT ![r] =
           IF Len(points_x) # Len(points_y)
           THEN [@ EXCEPT !.err = "invalid_argument", !.last = NoWeight]
           ELSE [active |-> TRUE,
                 todo |-> [i \in 1..Len(points_x) |-> <<points_x[i], points_y[i]>>],
                 hint |-> NoHint, last |-> NoWeight, err |-> "none"]]
    /\ UNCHANGED <<trivars, grib, kdtree, wind, ret>>

\* get_interpolation_weight(point, hint) on the next point of the call
StepQuery(r) ==
    /\ alive /\ built /\ ret.op = "none"
    /\ readers[r].active /\ readers[r].todo # <<>>
    /\ LET q == Head(readers[r].todo)
       IN  \E o \in locate_from(vpoint, faces, q, readers[r].hint) :
           \E g \in InfoReads(vinfo, IF IsHit(o.lt) THEN {o.face[i] : i \in 1..3} ELSE {}) :
           \E w \in {IF o.lt = "DANGLING"
                      THEN [InvalidWeight(q, o.lt) EXCEPT !.err = "crash"]
                      ELSE get_interpolation_weight(vpoint, vinfo, o, q, g)} :
               /\ readers' = [readers EXCEPT ![r] =
                      [@ EXCEPT !.todo = Tail(@),
                                !.hint = IF IsHit(o.lt)
                                         THEN [has_hint |-> TRUE, face |-> o.face,
                                               epoch |-> ncalls]
                                         ELSE @,
                                !.last = w]]
               /\ alive' = (w.err # "crash")
    /\ UNCHANGED <<built, points, vpoint, vinfo, faces, in_domain, constrained,
                   applied, ncalls, grib, kdtree, wind, ret>>

\* the call returns its weights; the hint goes with the frame
EndQuery(r) ==
    /\ alive /\ built /\ ret.op = "none"
    /\ readers[r].active /\ readers[r].todo = <<>>
    /\ readers' = [readers EXCEPT ![r] =
           [IdleReader EXCEPT !.hint = discard(readers[r].hint)]]
    /\ UNCHANGED <<trivars, grib, kdtree, wind, ret>>

\* apply_constraint_polygon while no query call is running
ApplyBetweenQueries(region_x, region_y) ==
    /\ \A r \in Readers : ~readers[r].active
    /\ ApplyConstraintPolygon(region_x, region_y)

\* the mesh, the polygons and the query calls
HintMeshes == { <<<<0, 4, 4, 0>>, <<0, 0, 4, 4>>>> }
HintPolygons ==
    { <<<<0, 4, 0>>, <<0, 0, 4>>>>,      \* the lower left triangle
      <<<<0, 4, 0>>, <<0, 4, 0>>>> }      \* there and back along the diagonal
HintQueries ==
    { <<<<1, 2, 5, 3>>, <<2, 2, 5, 2>>>>,   \* a face, a shared edge, a miss, a face
      <<<<5, 0, 2>>, <<5, 0, 2>>>>,          \* a miss first, a vertex, the edge
      <<<<2>>, <<2>>>>,                      \* one point
      <<<<1, 2>>, <<2>>>> }                  \* vectors of different lengths

NextHint ==
    \/ \E m \in HintMeshes : Construct(m[1], m[2])
    \/ \E p \in HintPolygons : ApplyBetweenQueries(p[1], p[2])
    \/ \E r \in Readers, k \in HintQueries : BeginQuery(r, k[1], k[2])
    \/ \E r \in Readers : StepQuery(r)
    \/ \E r \in Readers : EndQuery(r)
    \/ Return

SpecHint == Init /\ [][NextHint]_vars

(***************************************************************************)
(* Properties of the source field.                                         *)
(***************************************************************************)
\* C14: every longitude a source field stores after load satisfies
\* -180 <= lon < 180 and is congruent modulo 360 to the longitude the decoder
\* handed out, whatever that value is (below -180 and from 360 on included).
C14_LongitudeRange ==
    grib.loaded =>
        \A k \in 1..Len(grib.m_longitude) :
            /\ 0 - 180 <= grib.m_longitude[k]
            /\ grib.m_longitude[k] < 180
            /\ (grib.m_longitude[k] - grib.decoded[k]) % 360 = 0

SetMin(S) == CHOOSE m \in S : \A e \in S : m <= e
SetMax(S) == CHOOSE m \in S : \A e \in S : m >= e

\* C15: the four corners are the minima and maxima of the first Ni and of the
\* last Ni longitudes and latitudes: each of the first Ni and each of the last
\* Ni elements takes part, and no other element.
C15_CornersUseWholeRows ==
    grib.loaded =>
        LET n == Len(grib.m_longitude)
            first == 1..grib.m_ni
            last == (n - grib.m_ni + 1)..n
            lon(S) == {grib.m_longitude[k] : k \in S}
            lat(S) == {grib.m_latitude[k] : k \in S}
        IN  grib.m_corners =
                << <<SetMin(lon(last)), SetMin(lat(last))>>,
                   <<SetMax(lon(last)), SetMax(lat(last))>>,
                   <<SetMax(lon(first)), SetMax(lat(first))>>,
                   <<SetMin(lon(first)), SetMin(lat(first))>> >>

\* twice the signed area of the polygon c
SignedArea2(c) ==
    LET n == Len(c)
        term(i) == c[i][1] * c[(i % n) + 1][2] - c[(i % n) + 1][1] * c[i][2]
        RECURSIVE sum(_)
        sum(i) == IF i = 0 THEN 0 ELSE term(i) + sum(i - 1)
    IN  sum(n)

\* C16: the four corners, in their stored order (lower left, lower right, top
\* right, top left), form a counter-clockwise quadrilateral: their signed area
\* is positive, whether the first row of the grid is its northernmost or its
\* southernmost row.
C16_CornersCounterClockwise ==
    grib.loaded => SignedArea2(grib.m_corners) > 0

\* raw, trimmed of the characters that are neither letters nor digits at both
\* ends, is name
TrimsTo(raw, name) ==
    \E i \in 1..(Len(raw) + 1) :
        LET j == i + Len(name) - 1
        IN  /\ j <= Len(raw)
            /\ \A k \in 1..Len(name) : raw[i + k - 1] = name[k]
            /\ \A k \in 1..Len(raw) : (k < i \/ k > j) => ~isalnum(raw[k])
            /\ Len(name) > 0 => isalnum(name[1]) /\ isalnum(name[Len(name)])

\* the names some message of the field's file carries
Carried(g) ==
    {name \in RequestedNames : \E k \in 1..Len(g.file) : TrimsTo(g.file[k], name)}

\* the calls before the j-th for the name of the j-th
Earlier(c, j) == {i \in 1..(j - 1) : c[i].name = c[j].name}

\* C17 (as stated): over any sequence of getGribArray1d calls on one source
\* field the decoder is read exactly once for each name, on the first call for
\* it; a later call for the name reads nothing and returns the array the first
\* call returned; each name has its own valid entry of the cache.
C17_ReadOncePerName ==
    grib.loaded =>
        LET c == grib.calls
        IN  /\ \A j \in 1..Len(c) : c[j].read <=> Earlier(c, j) = {}
            /\ \A j \in 1..Len(c) :
                   Cardinality({k \in 1..Len(grib.reads) : grib.reads[k] = c[j].name}) = 1
            /\ \A j \in 1..Len(c) : \A i \in Earlier(c, j) : c[j].arr = c[i].arr
            /\ \A e \in grib.m_preread_value_map :
                   e[2] + 1 \in 1..Len(grib.m_preread_values)
            /\ \A e, f \in grib.m_preread_value_map : e # f => e[1] # f[1] /\ e[2] # f[2]
            /\ \A i, j \in 1..Len(c) :
                   (c[i].name # c[j].name /\ c[i].err = "none" /\ c[j].err = "none")
                       => c[i].arr # c[j].arr

\* C17 (amended): the same for each name that some message of the file
\* carries; a call for a name that no message carries raises the decode error,
\* stores nothing in the cache, and reads the decoder each time.
C17_ReadOncePerCarriedName ==
    grib.loaded =>
        LET c == grib.calls
        IN  /\ \A j \in 1..Len(c) :
                   IF c[j].name \in Carried(grib)
                   THEN /\ c[j].err = "none"
                        /\ c[j].read <=> Earlier(c, j) = {}
                        /\ Cardinality({k \in 1..Len(grib.reads) :
                                           grib.reads[k] = c[j].name}) = 1
                        /\ \A i \in Earlier(c, j) : c[j].arr = c[i].arr
                        /\ \E e \in grib.m_preread_value_map :
                               /\ e[1] = c[j].name
                               /\ grib.m_preread_values[e[2] + 1] = c[j].arr
                   ELSE /\ c[j].err = "exception"
                        /\ c[j].read
                        /\ \A e \in grib.m_preread_value_map : e[1] # c[j].name
            /\ \A e \in grib.m_preread_value_map :
                   e[2] + 1 \in 1..Len(grib.m_preread_values)
            /\ \A e, f \in grib.m_preread_value_map : e # f => e[1] # f[1] /\ e[2] # f[2]
            /\ \A i, j \in 1..Len(c) :
                   (c[i].name # c[j].name /\ c[i].err = "none" /\ c[j].err = "none")
                       => c[i].arr # c[j].arr

\* a name called for, another one called for, and the first one again: the
\* third call reads nothing and returns what the first returned
C17_Witness ==
    /\ grib.loaded
    /\ Len(grib.calls) = 3
    /\ grib.calls[1].name = grib.calls[3].name
    /\ grib.calls[1].name # grib.calls[2].name
    /\ grib.calls[1].err = "none" /\ grib.calls[2].err = "none"
    /\ ~grib.calls[3].read
    /\ grib.calls[3].arr = grib.calls[1].arr
    /\ Len(grib.reads) = 2

\* C18: make_handle returns the first message, in file order, whose short name
\* trimmed of non-alphanumeric characters at both ends is the requested name,
\* and throws when no message of the file matches.
C18_FirstTrimmedMatch ==
    ret.op = "make_handle" =>
        LET o == ret.out
            hits == {k \in 1..Len(o.names) : TrimsTo(o.names[k], o.name)}
        IN  IF hits = {}
            THEN ret.err = "exception"
            ELSE /\ ret.err = "none"
                 /\ o.h \in hits
                 /\ \A k \in hits : o.h <= k

\* the second message is returned: the first does not match, the second
\* matches only once trimmed
C18_Witness ==
    /\ ret.op = "make_handle" /\ ret.err = "none"
    /\ ret.out.h = 2
    /\ ret.out.names[2] # ret.out.name
    /\ Len(ret.out.name) > 0

\* C19: for every k in [0, Ni * Nj), indexToPair returns (i, j) with
\* i * Nj + j = k, 0 <= i < Ni and 0 <= j < Nj.
C19_IndexRoundTrip ==
    (ret.op = "index_to_pair" /\ ret.out.index < grib.m_ni * grib.m_nj) =>
        LET p == ret.out.pair
        IN  /\ p.i * grib.m_nj + p.j = ret.out.index
            /\ 0 <= p.i /\ p.i < grib.m_ni
            /\ 0 <= p.j /\ p.j < grib.m_nj

\* the last index of a grid with more rows than one and Ni # Nj
C19_Witness ==
    /\ ret.op = "index_to_pair"
    /\ grib.m_ni > 1 /\ grib.m_nj > 1 /\ grib.m_ni # grib.m_nj
    /\ ret.out.index = grib.m_ni * grib.m_nj - 1
    /\ ret.out.pair.i = grib.m_ni - 1

(***************************************************************************)
(* Properties of the spatial index.                                        *)
(***************************************************************************)
\* C20: building the index from x and y of different lengths fails with
\* SizeMismatch, which the caller receives; with equal lengths the index is
\* initialized and size() is the length of x.
C20_BuildSizes ==
    ret.op = "kdtree" =>
        IF ret.nx # ret.ny
        THEN ret.err = "SizeMismatch"
        ELSE ret.err = "none" /\ kdtree.m_initialized /\ size(kdtree) = ret.nx

(***************************************************************************)
(* Properties of the Built state and of failed constraint calls.           *)
(***************************************************************************)
\* q lies in the convex hull of the points pts
InConvexHull(pts, q) ==
    \E a, b, c \in 1..Len(pts) :
        \/ q = pts[a]
        \/ Between(pts[a], q, pts[b])
        \/ Orient(pts[a], pts[b], pts[c]) > 0 /\ InClosedTri(q, pts[a], pts[b], pts[c])

\* C28: on a triangulation that was constructed and had no constraint polygon
\* applied yet every finite face has in_domain false, so get_triangles returns
\* an empty list, while a query inside the convex hull returns a valid weight.
C28_BuiltState ==
    (built /\ ncalls = 0) =>
        /\ in_domain = {}
        /\ ret.op = "triangles" => ret.tris = <<>>
        /\ (ret.op = "weight" /\ InConvexHull(points, ret.q)) =>
               (ret.err = "none" /\ ret.valid)

\* C29: an apply_constraint_polygon call that fails with invalid_argument
\* leaves the triangulation as it was: vertices, faces, constrained edges and
\* in_domain flags, and with them what every later query answers.
C29_FailedApplyFrame ==
    [][(ret'.op = "apply" /\ ret'.err = "invalid_argument")
        => /\ vpoint' = vpoint /\ vinfo' = vinfo /\ points' = points
           /\ faces' = faces
           /\ constrained' = constrained
           /\ in_domain' = in_domain
           /\ applied' = applied
           /\ \A q \in QueryPoints :
                  locate(vpoint', faces', q) = locate(vpoint, faces, q)]_vars

\* a call with vectors of different lengths on a triangulation that has faces
\* in the domain
C29_Witness ==
    /\ ret.op = "apply" /\ ret.err = "invalid_argument"
    /\ ret.nx # ret.ny
    /\ in_domain # {}

\* C25: bulk evaluation returns one result per weight, in the weights' order:
\* NaN for an invalid weight, for which no element of values is read, and for a
\* valid weight whose three indices are within values the sum
\* w0*values[v0] + w1*values[v1] + w2*values[v2].
C25_BulkInterpolate ==
    ret.op = "interpolate" =>
        LET o == ret.out
        IN  /\ Len(o.results) = Len(o.weights)
            /\ \A k \in 1..Len(o.weights) :
                   LET w == o.weights[k]
                       r == o.results[k]
                   IN  /\ ~w.valid => r.nan /\ r.read = {}
                       /\ (w.valid /\ \A i \in 1..3 : w.vertices[i] < Len(o.values)) =>
                              /\ ~r.nan
                              /\ r.den = w.den
                              /\ r.num = w.num[1] * o.values[w.vertices[1] + 1]
                                       + w.num[2] * o.values[w.vertices[2] + 1]
                                       + w.num[3] * o.values[w.vertices[3] + 1]

\* a valid and an invalid weight evaluated in one call
C25_Witness ==
    /\ ret.op = "interpolate"
    /\ Len(ret.out.weights) = 2
    /\ ret.out.weights[1].valid /\ ~ret.out.weights[2].valid
    /\ ret.out.values = <<10, 20, 30>>
    /\ ret.out.results[1].num = 90 /\ ret.out.results[2].nan

\* C30: when Grib::initialize or Grib::getGribArray1d returns or throws, the
\* file make_handle opened is closed and no handle created while scanning it
\* is left undeleted.
C30_DecoderResourcesReleased ==
    ret.op \in {"grib", "values_1d"} =>
        ~ret.out.file_open /\ ret.out.handles = {}

(***************************************************************************)
(* Properties of the queries of the spatial index.                         *)
(***************************************************************************)
\* C21: find_within_radius(qx, qy, r) returns exactly the indices of the
\* points whose distance to the query is at most r (the points at distance r
\* included), each once.
C21_WithinRadius ==
    ret.op = "find_within_radius" =>
        /\ ret.err = "none"
        /\ {ret.out.outMatches[i] : i \in 1..Len(ret.out.outMatches)}
               = {k - 1 : k \in {j \in 1..size(kdtree) :
                      /\ ret.out.radius >= 0
                      /\ Dist2(kdtree.pts[j], ret.out.q)
                             <= ret.out.radius * ret.out.radius}}
        /\ Len(ret.out.outMatches)
               = Cardinality({ret.out.outMatches[i] : i \in 1..Len(ret.out.outMatches)})

\* C23: find_k_nearest(qx, qy, k) returns min(k, size()) pairs of an input
\* index and the distance (not its square) of that point to the query, in
\* non-decreasing order of distance, no other point being closer than a
\* returned one.
C23_KNearest ==
    ret.op = "find_k_nearest" =>
        LET o == ret.out.output
            d2(i) == Dist2(kdtree.pts[o[i][1] + 1], ret.out.q)
        IN  /\ ret.err = "none"
            /\ Len(o) = min(ret.out.k, size(kdtree))
            /\ \A i \in 1..Len(o) :
                   /\ o[i][1] \in 0..(size(kdtree) - 1)
                   /\ o[i][2] = sqrt(d2(i))
                   /\ \A j \in 1..Len(o) : i < j => d2(i) <= d2(j) /\ o[i][1] # o[j][1]
                   /\ \A p \in 1..size(kdtree) :
                          (\A j \in 1..Len(o) : o[j][1] # p - 1) =>
                              d2(i) <= Dist2(kdtree.pts[p], ret.out.q)

(***************************************************************************)
(* Properties of the wind field container.                                 *)
(***************************************************************************)
\* as long as no store went outside the matrices, a cell no set call named
\* holds its component's background and a cell that was named holds the last
\* value it was set to
CellsHoldLastValue ==
    (wind.constructed /\ ~wind.oob_written) =>
        \A cell \in Cells(wind) :
            LET held == Member(wind, cell[1])[cell[3] + 1][cell[2] + 1]
                log == {e \in wind.written : <<e[1], e[2], e[3]>> = cell}
            IN  IF log = {}
                THEN held = (IF cell[1] = "p" THEN BackgroundPressure ELSE 0)
                ELSE \A e \in log : held = e[4]

HintWithinCall ==
    \A r \in Readers :
        /\ ~readers[r].active => ~readers[r].hint.has_hint
        /\ (readers[r].active /\ readers[r].hint.has_hint) =>
               /\ readers[r].hint.epoch = ncalls
               /\ IsFaceOf(faces, readers[r].hint.face)

\* a step that changes the hint of one thread leaves the other threads' alone,
\* and a constraint insertion is made while no hint exists
HintNotShared ==
    /\ \A r, s \in Readers :
           (r # s /\ readers'[r].hint # readers[r].hint) =>
               readers'[s] = readers[s]
    /\ ncalls' # ncalls => \A r \in Readers : ~readers[r].hint.has_hint

\* C26: a locate hint lives inside one query call: a call starts without a
\* face and its hint is gone when it returns, so no walk starts from a face
\* stored before a constraint insertion, and no step of one thread touches the
\* hint of another.
C26_HintLifetime == []HintWithinCall /\ [][HintNotShared]_vars

\* two query calls run at once after a constraint insertion, each with a hint
\* of its own
C26_Witness ==
    /\ ncalls > 0
    /\ readers["r1"].active /\ readers["r1"].hint.has_hint
    /\ readers["r2"].active /\ readers["r2"].hint.has_hint
    /\ readers["r1"].hint.face # readers["r2"].hint.face

\* the weight w gives the vertex of handle h
HandleWeight(w, h) ==
    (IF w.face[1] = h THEN w.num[1] ELSE 0) + (IF w.face[2] = h THEN w.num[2] ELSE 0)
        + (IF w.face[3] = h THEN w.num[3] ELSE 0)

\* the weights a and b are both invalid, or both valid and give every vertex
\* the same weight (the info of a vertex being the same whoever reads it, they
\* interpolate every value array to the same value)
SameWeight(a, b) ==
    /\ a.valid = b.valid /\ a.err = b.err
    /\ a.valid => \A h \in Handles(vpoint) :
                      HandleWeight(a, h) * b.den = HandleWeight(b, h) * a.den

\* C27: at every position of a bulk call the weight has the validity of, and
\* interpolates as, the weight of every single call on that point, whatever
\* the hint left by the points before it.
C27_HintChangesCostOnly ==
    \A r \in Readers :
        (readers[r].active /\ readers[r].last.op = "weight") =>
            \A o \in locate(vpoint, faces, readers[r].last.q) :
                SameWeight(readers[r].last,
                           get_interpolation_weight(vpoint, vinfo, o, readers[r].last.q,
                                                    [h \in Handles(vpoint) |-> 0]))

\* a point on the edge two faces share, located from the hint of the point
\* before it, where a single call may answer with the other face
C27_Witness ==
    \E r \in Readers :
        /\ readers[r].active /\ readers[r].last.op = "weight"
        /\ readers[r].last.lt = "EDGE" /\ readers[r].last.valid
        /\ Len(readers[r].todo) = 2
        /\ \E o \in locate(vpoint, faces, readers[r].last.q) :
               {o.face[i] : i \in 1..3} # {readers[r].last.face[i] : i \in 1..3}

====
